---- MODULE Spec2Model ----
(***************************************************************************)
(* A model of the session portal (src/portal/main.py: PortAllocator and    *)
(* SessionManager behind the FastAPI handlers) and of the terminal bridge  *)
(* (src/server/terminal.py: TerminalSession and TerminalManager behind the *)
(* poll handler of src/server/app.py).                                     *)
(*                                                                         *)
(* Threads.  The FastAPI handlers are `async def` and call the manager     *)
(* synchronously, so create_session and stop_session run one at a time on  *)
(* the event loop (variable loop).  launch_session is a background task    *)
(* and a plain function, which Starlette runs in its thread pool: one      *)
(* launch thread per created session (variable launch), whose steps        *)
(* interleave with each other and with the handler on the event loop.      *)
(***************************************************************************)
EXTENDS Integers, Sequences, FiniteSets, TLC

\* ------------------------------------------------------------------ bounds
\* Number of sessions ever created in a behaviour.
MaxSessions == 2
\* Number of ports of the allocator's range [PortStart, PortEnd).
PortSpan == 2
\* Number of thread-pool workers that run background launches at a time.
MaxWorkers == 1
\* Number of threads that call the allocator directly.
NumCallers == 2
\* Number of TerminalSession objects constructed in a behaviour.
MaxTerminals == 2
\* Number of bytes one terminal's process writes before it exits.
MaxOutput == 2
\* Number of requests the client that sends terminal input makes.
MaxWrites == 1

\* -------------------------------------------------------- program constants
PortStart == 20000
PortEnd == PortStart + PortSpan
\* os.read(self._master_fd, 4096)
ReadSize == 4096

Ports == PortStart .. (PortEnd - 1)
Ids == 1 .. MaxSessions
Callers == 1 .. NumCallers

\* Python's None, for the optional string fields.
None == "None"

\* ------------------------------------------------------------- dictionaries
\* Python dicts are functions with a finite domain.
EmptyDict == <<>>
Put(d, k, v) == [x \in (DOMAIN d) \cup {k} |-> IF x = k THEN v ELSE d[x]]
Pop(d, k) == [x \in (DOMAIN d) \ {k} |-> d[x]]

VARIABLES
    _sessions,   \* SessionManager._sessions: session id -> SessionInfo
    _allocated,  \* PortAllocator._allocated: port -> owning session id
    _next,       \* PortAllocator._next: the rotating cursor
    containers,  \* the docker daemon: container name -> published host port
    docker,      \* whether the docker executable can be run on this host
    launch,      \* session id -> the position of its launch_session thread
    loop,        \* the handler the event loop is executing
    ports_lock,  \* PortAllocator._lock: the caller holding it, or 0
    callers,     \* direct callers of the allocator: the position of each
    granted,     \* port -> owners it was returned to since its last release
    _terminals,  \* TerminalManager._terminals: session id -> terminal
    _backend,    \* TerminalManager._backend: the container backend, or None
    terms,       \* the TerminalSession objects, in order of construction
    produced,    \* every byte the session's terminal processes wrote, in order
    poller,      \* the client that polls the terminal, and its request
    writer,      \* the client that sends terminal input, and its request
    last,        \* the last call made on the allocator alone, and its result
    ensurers,    \* threads that call ensure concurrently: the position of each
    terminals_lock, \* TerminalManager._lock: the thread holding it, or 0
    lock_holder, \* every lock of the program: the thread holding it, or 0
    threads,     \* threads taking the locks: the method each runs, and where
    file_request, \* the file request the server handles, and its outcome
    symlink,     \* whether LinkPath in the workspace is a symbolic link
    sweep,       \* the shutdown sweep: the position of each stop_session call
    clock,       \* the second that utcnow() shows
    workspaces,  \* the sessions created, with their workspace folders
    info,        \* a SessionInfo that is updated while it is read
    update,      \* the update_session call on info, and its position
    view         \* the as_dict call on info: its position and the dict so far

allocVars == <<ports_lock, callers, granted>>
ensureVars == <<ensurers, terminals_lock>>
termVars == <<_terminals, _backend, terms, produced, poller, writer>>
lockVars == <<lock_holder, threads>>
fileVars == <<file_request, symlink>>
sweepVars == <<sweep>>
folderVars == <<clock, workspaces>>
viewVars == <<info, update, view>>
portalVars == <<sweepVars, folderVars, viewVars>>
callVars == <<last, ensureVars, lockVars, fileVars, portalVars>>
outsideSM == <<allocVars, termVars, callVars>>
outsideAlloc == <<_sessions, containers, docker, launch, loop, termVars, callVars>>
outsideTerm == <<_sessions, _allocated, _next, containers, docker, launch, loop,
                 allocVars, callVars>>
outsideEnsure == <<_sessions, _allocated, _next, containers, docker, launch,
                   loop, allocVars, last, produced, poller, writer, lockVars,
                   fileVars, portalVars>>
vars == <<_sessions, _allocated, _next, containers, docker, launch, loop,
          allocVars, termVars, callVars>>

\* ------------------------------------------------------------ SessionStatus
PENDING == "pending"
LAUNCHING == "launching"
RUNNING == "running"
ERROR == "error"
STOPPED == "stopped"

\* container_name is "portal-" + slug of "vscode-<project>-<session id>": one
\* name per session id, so the session id stands for it.
ContainerName(session_id) == session_id

\* SessionInfo(...) as create_session builds it: status PENDING, no error, no url.
SessionInfo(session_id, port) ==
    [id |-> session_id, port |-> port,
     container_name |-> ContainerName(session_id),
     status |-> PENDING, error_message |-> None, access_url |-> <<>>]

\* f"http://{DEFAULT_ACCESS_HOST}:{session.port}/?folder=/workspace"
AccessUrl(port) == <<"http", port>>

\* ------------------------------------------------------------ PortAllocator
\* One iteration of the for loop of acquire per unfolding: n iterations are left.
RECURSIVE AcquireLoop(_, _, _, _, _)
AcquireLoop(n, nxt, alloc, busy, session_id) ==
    IF n = 0
    THEN [ok |-> FALSE, port |-> PortStart, next |-> nxt, allocated |-> alloc]
    ELSE LET candidate == nxt
             bumped == nxt + 1
             nxt1 == IF bumped >= PortEnd THEN PortStart ELSE bumped
         IN  IF candidate \in DOMAIN alloc
             THEN AcquireLoop(n - 1, nxt1, alloc, busy, session_id)
             ELSE IF candidate \in busy
                  THEN AcquireLoop(n - 1, nxt1, alloc, busy, session_id)
                  ELSE [ok |-> TRUE, port |-> candidate, next |-> nxt1,
                        allocated |-> Put(alloc, candidate, session_id)]

\* An acquire whose scan always starts at the first port of the range.
AcquireFromStart(nxt, alloc, busy, session_id) ==
    AcquireLoop(PortEnd - PortStart, PortStart, alloc, busy, session_id)

\* An acquire whose loop runs over range(start, end - 1).
AcquireShort(nxt, alloc, busy, session_id) ==
    AcquireLoop(PortEnd - PortStart - 1, nxt, alloc, busy, session_id)

\* acquire(session_id) inside its lock; busy is the set of ports on which
\* _is_port_in_use answers true.  ok = FALSE is the RuntimeError.
Acquire(nxt, alloc, busy, session_id) ==
    AcquireLoop(PortEnd - PortStart, nxt, alloc, busy, session_id)

\* The candidates the for loop of acquire examines in n iterations, in order.
RECURSIVE Candidates(_, _)
Candidates(n, nxt) ==
    IF n = 0 THEN <<>>
    ELSE LET bumped == nxt + 1
             nxt1 == IF bumped >= PortEnd THEN PortStart ELSE bumped
         IN  <<nxt>> \o Candidates(n - 1, nxt1)

\* A release that, given a port that is not leased, drops some other lease.
ReleaseSome(alloc, port) ==
    IF port \in DOMAIN alloc THEN Pop(alloc, port)
    ELSE IF DOMAIN alloc = {} THEN alloc
    ELSE Pop(alloc, CHOOSE q \in DOMAIN alloc : TRUE)

\* release(port): self._allocated.pop(port, None)
Release(alloc, port) == Pop(alloc, port)

\* Ports a connect to 127.0.0.1 succeeds on: those published by a running
\* container, and those an unrelated process listens on (ext).
PublishedPorts == {containers[n] : n \in DOMAIN containers}

\* ------------------------------------------- PortAllocator, call by call
\* One thread calling acquire and release: each call runs inside the lock from
\* its first statement to its last, so it is one step.  last records the call:
\* its arguments, the ports probed as in use, the cursor it started from and
\* its result (ok = FALSE is the RuntimeError).
NoCall == [op |-> "none", owner |-> 0, busy |-> {}, cursor |-> PortStart,
           ok |-> TRUE, port |-> PortStart]

\* acquire(session_id)
AllocAcquire(owner, busy) ==
    /\ LET r == Acquire(_next, _allocated, busy, owner) IN
         /\ _next' = r.next
         /\ _allocated' = r.allocated
         /\ last' = [op |-> "acquire", owner |-> owner, busy |-> busy,
                     cursor |-> _next, ok |-> r.ok, port |-> r.port]
    /\ UNCHANGED <<_sessions, containers, docker, launch, loop, allocVars, termVars,
                   ensureVars, lockVars, fileVars, portalVars>>

\* release(port)
AllocRelease(port) ==
    /\ _allocated' = Release(_allocated, port)
    /\ last' = [NoCall EXCEPT !.op = "release", !.cursor = _next, !.port = port,
                              !.ok = (port \in DOMAIN _allocated)]
    /\ UNCHANGED <<_next, _sessions, containers, docker, launch, loop,
                   allocVars, termVars, ensureVars, lockVars, fileVars, portalVars>>

\* --------------------------------------- PortAllocator, statement by statement
\* Threads that call acquire and release concurrently.  Each `with self._lock`
\* is taken and left explicitly, and each statement of the loop body is a step.
CallerIdle == [pc |-> "idle", n |-> 0, candidate |-> PortStart, probed |-> FALSE]

\* An allocator whose methods do not take the lock.
NoLock == TRUE

\* threading.Lock: `with self._lock` blocks until no thread holds the lock.
LockIsFree == ports_lock = 0

At_(t, pc) == callers[t].pc = pc
Set_(t, r) == callers' = [callers EXCEPT ![t] = r]

\* acquire: with self._lock, entering the for loop
AcquireEnter(t) ==
    /\ At_(t, "idle")
    /\ LockIsFree
    /\ ports_lock' = t
    /\ Set_(t, [CallerIdle EXCEPT !.pc = "for", !.n = PortEnd - PortStart])
    /\ UNCHANGED <<_allocated, _next, granted, outsideAlloc>>

\* for _ in range(self._start, self._end): candidate = self._next; when the
\* range is exhausted the with block is left and RuntimeError is raised.
AcquireFor(t) ==
    /\ At_(t, "for")
    /\ IF callers[t].n = 0
       THEN /\ ports_lock' = 0
            /\ Set_(t, CallerIdle)
       ELSE /\ Set_(t, [callers[t] EXCEPT !.pc = "bump", !.n = @ - 1,
                                          !.candidate = _next, !.probed = FALSE])
            /\ UNCHANGED ports_lock
    /\ UNCHANGED <<_allocated, _next, granted, outsideAlloc>>

\* self._next += 1
AcquireBump(t) ==
    /\ At_(t, "bump")
    /\ _next' = _next + 1
    /\ Set_(t, [callers[t] EXCEPT !.pc = "wrap"])
    /\ UNCHANGED <<_allocated, ports_lock, granted, outsideAlloc>>

\* if self._next >= self._end: self._next = self._start
AcquireWrap(t) ==
    /\ At_(t, "wrap")
    /\ _next' = IF _next >= PortEnd THEN PortStart ELSE _next
    /\ Set_(t, [callers[t] EXCEPT !.pc = "check"])
    /\ UNCHANGED <<_allocated, ports_lock, granted, outsideAlloc>>

\* if candidate in self._allocated: continue
AcquireCheck(t) ==
    /\ At_(t, "check")
    /\ Set_(t, [callers[t] EXCEPT
                  !.pc = IF callers[t].candidate \in DOMAIN _allocated
                         THEN "for" ELSE "probe"])
    /\ UNCHANGED <<_allocated, _next, ports_lock, granted, outsideAlloc>>

\* if self._is_port_in_use(candidate): continue
AcquireProbe(t) ==
    /\ At_(t, "probe")
    /\ \E in_use \in BOOLEAN :
         Set_(t, [callers[t] EXCEPT !.pc = IF in_use THEN "for" ELSE "insert",
                                    !.probed = ~in_use])
    /\ UNCHANGED <<_allocated, _next, ports_lock, granted, outsideAlloc>>

\* self._allocated[candidate] = session_id; return candidate (leaving the lock)
AcquireInsert(t) ==
    /\ At_(t, "insert")
    /\ _allocated' = Put(_allocated, callers[t].candidate, t)
    /\ granted' = [granted EXCEPT ![callers[t].candidate] = @ \cup {t}]
    /\ ports_lock' = 0
    /\ Set_(t, [callers[t] EXCEPT !.pc = "idle"])
    /\ UNCHANGED <<_next, outsideAlloc>>

\* release(port): with self._lock
ReleaseEnter(t, port) ==
    /\ At_(t, "idle")
    /\ LockIsFree
    /\ ports_lock' = t
    /\ Set_(t, [CallerIdle EXCEPT !.pc = "pop", !.candidate = port])
    /\ UNCHANGED <<_allocated, _next, granted, outsideAlloc>>

\* self._allocated.pop(port, None), leaving the lock
ReleasePop(t) ==
    /\ At_(t, "pop")
    /\ _allocated' = Release(_allocated, callers[t].candidate)
    /\ granted' = [granted EXCEPT ![callers[t].candidate] = {}]
    /\ ports_lock' = 0
    /\ Set_(t, CallerIdle)
    /\ UNCHANGED <<_next, outsideAlloc>>

\* ----------------------------------------------------------- update_session
update_session(session, status, error, access_url) ==
    [session EXCEPT
        !.status = IF status # None THEN status ELSE @,
        !.error_message = error,
        !.access_url = IF access_url # <<>> THEN access_url ELSE @]

\* ------------------------------------------------------------ the event loop
Idle == [op |-> "idle", pc |-> "idle", sid |-> 0, port |-> PortStart,
         was_stopped |-> FALSE]

\* create_session up to and including self._ports.acquire(session_id)
CreateAcquire ==
    /\ loop = Idle
    /\ Cardinality(DOMAIN _sessions) < MaxSessions
    /\ \E ext \in SUBSET Ports :
         LET session_id == Cardinality(DOMAIN _sessions) + 1
             r == Acquire(_next, _allocated, PublishedPorts \cup ext, session_id)
         IN  /\ _next' = r.next
             /\ _allocated' = r.allocated
             /\ loop' = [op |-> "create", pc |-> IF r.ok THEN "record" ELSE "raised",
                         sid |-> session_id, port |-> r.port,
                         was_stopped |-> FALSE]
    /\ UNCHANGED <<_sessions, containers, docker, launch, outsideSM>>

\* the rest of create_session, and the handler's background_tasks.add_task
CreateRecord ==
    /\ loop.op = "create" /\ loop.pc = "record"
    /\ _sessions' = Put(_sessions, loop.sid,
                        SessionInfo(loop.sid, loop.port))
    /\ launch' = Put(launch, loop.sid,
                     [pc |-> "queued", exc |-> None, removed |-> FALSE])
    /\ loop' = [loop EXCEPT !.pc = "done"]
    /\ UNCHANGED <<_allocated, _next, containers, docker, outsideSM>>

\* The handler returns (a redirect, or the server's 500 for an exception).
Respond ==
    /\ loop.pc \in {"done", "raised"}
    /\ loop' = Idle
    /\ UNCHANGED <<_sessions, _allocated, _next, containers, docker, launch, outsideSM>>

\* ------------------------------------------------------------- stop_session
\* _stop_container: subprocess.run(["docker", "rm", "-f", name], check=False).
\* The exit status is ignored, but subprocess.run itself raises
\* FileNotFoundError when the docker executable cannot be run.
StopContainerRaises == ~docker
StopContainerEffect(name) == Pop(containers, name)

\* stop_session: get_session.  An unknown id returns at once.
StopBegin(session_id) ==
    /\ loop = Idle
    /\ loop' = IF session_id \in DOMAIN _sessions
               THEN [Idle EXCEPT !.op = "stop", !.pc = "stop_container",
                                 !.sid = session_id,
                                 !.was_stopped =
                                     (_sessions[session_id].status = STOPPED)]
               ELSE [Idle EXCEPT !.op = "stop", !.pc = "done", !.sid = session_id]
    /\ UNCHANGED <<_sessions, _allocated, _next, containers, docker, launch, outsideSM>>

\* stop_session: self._stop_container(session.container_name)
StopContainer ==
    /\ loop.op = "stop" /\ loop.pc = "stop_container"
    /\ IF StopContainerRaises
       THEN /\ loop' = [loop EXCEPT !.pc = "raised"]
            /\ UNCHANGED containers
       ELSE /\ containers' = StopContainerEffect(_sessions[loop.sid].container_name)
            /\ loop' = [loop EXCEPT !.pc = "release"]
    /\ UNCHANGED <<_sessions, _allocated, _next, docker, launch, outsideSM>>

\* stop_session: self._ports.release(session.port)
StopRelease ==
    /\ loop.op = "stop" /\ loop.pc = "release"
    /\ _allocated' = Release(_allocated, _sessions[loop.sid].port)
    /\ loop' = [loop EXCEPT !.pc = "update"]
    /\ UNCHANGED <<_sessions, _next, containers, docker, launch, outsideSM>>

\* stop_session: self.update_session(session, status=SessionStatus.STOPPED)
StopUpdate ==
    /\ loop.op = "stop" /\ loop.pc = "update"
    /\ _sessions' = [_sessions EXCEPT
                       ![loop.sid] = update_session(@, STOPPED, None, <<>>)]
    /\ loop' = [loop EXCEPT !.pc = "done"]
    /\ UNCHANGED <<_allocated, _next, containers, docker, launch, outsideSM>>

\* ----------------------------------------------------------- launch_session
At(session_id, pc) ==
    session_id \in DOMAIN launch /\ launch[session_id].pc = pc

Goto(session_id, pc) ==
    launch' = [launch EXCEPT ![session_id].pc = pc]

\* An exception leaves the try block: control goes to the except clause.
Raise(session_id, exc) ==
    launch' = [launch EXCEPT ![session_id].pc = "rollback_release",
                             ![session_id].exc = exc]

\* Launch threads that have started and not ended.
Running(session_id) ==
    launch[session_id].pc \notin {"queued", "returned", "raised"}

\* A launch_session that is also run again for a session whose launch failed.
LaunchBeginAgain(session_id) ==
    /\ session_id \in DOMAIN launch
    /\ \/ launch[session_id].pc = "queued"
       \/ /\ launch[session_id].pc = "returned"
          /\ _sessions[session_id].status = ERROR
    /\ Cardinality({i \in DOMAIN launch : Running(i)}) < MaxWorkers
    /\ _sessions' = [_sessions EXCEPT
           ![session_id] = update_session(@, LAUNCHING, None, <<>>)]
    /\ launch' = [launch EXCEPT ![session_id] =
           [pc |-> "prepare_workspace", exc |-> None, removed |-> FALSE]]
    /\ UNCHANGED <<_allocated, _next, containers, docker, loop, outsideSM>>

\* A launch_session that allocates a port of its own when it starts.
LaunchBeginReacquire(session_id) ==
    /\ At(session_id, "queued")
    /\ Cardinality({i \in DOMAIN launch : Running(i)}) < MaxWorkers
    /\ _sessions' = [_sessions EXCEPT
           ![session_id] = update_session(@, LAUNCHING, None, <<>>)]
    /\ Goto(session_id, "prepare_workspace")
    /\ LET r == Acquire(_next, _allocated, PublishedPorts, session_id) IN
         /\ _next' = r.next
         /\ _allocated' = r.allocated
    /\ UNCHANGED <<containers, docker, loop, outsideSM>>

\* A worker takes the queued task: get_session, then
\* update_session(session, status=LAUNCHING, error=None)
LaunchBegin(session_id) ==
    /\ At(session_id, "queued")
    /\ Cardinality({i \in DOMAIN launch : Running(i)}) < MaxWorkers
    /\ IF session_id \in DOMAIN _sessions
       THEN /\ _sessions' = [_sessions EXCEPT
                   ![session_id] = update_session(@, LAUNCHING, None, <<>>)]
            /\ Goto(session_id, "prepare_workspace")
       ELSE /\ Goto(session_id, "returned")
            /\ UNCHANGED _sessions
    /\ UNCHANGED <<_allocated, _next, containers, docker, loop, outsideSM>>

\* launch_session called once more for a session whose earlier call has ended
\* (by a caller of SessionManager other than the create handler): get_session,
\* then update_session(session, status=LAUNCHING, error=None)
LaunchAgain(session_id) ==
    /\ session_id \in DOMAIN launch
    /\ launch[session_id].pc \in {"returned", "raised"}
    /\ Cardinality({i \in DOMAIN launch : Running(i)}) < MaxWorkers
    /\ _sessions' = [_sessions EXCEPT
           ![session_id] = update_session(@, LAUNCHING, None, <<>>)]
    /\ launch' = [launch EXCEPT ![session_id] =
           [pc |-> "prepare_workspace", exc |-> None, removed |-> FALSE]]
    /\ UNCHANGED <<_allocated, _next, containers, docker, loop, outsideSM>>

\* _prepare_workspace: git clone when a url is given (a non-zero exit status
\* raises RuntimeError), mkdir otherwise; it succeeds or raises.
LaunchPrepareWorkspace(session_id) ==
    /\ At(session_id, "prepare_workspace")
    /\ \E ok \in BOOLEAN :
         IF ok THEN Goto(session_id, "apply_template")
         ELSE Raise(session_id, "git clone failed")
    /\ UNCHANGED <<_sessions, _allocated, _next, containers, docker, loop, outsideSM>>

\* _apply_devcontainer_template: file I/O that either succeeds or raises OSError
LaunchApplyTemplate(session_id) ==
    /\ At(session_id, "apply_template")
    /\ \E ok \in BOOLEAN :
         IF ok THEN Goto(session_id, "start_stop_container")
         ELSE Raise(session_id, "template failed")
    /\ UNCHANGED <<_sessions, _allocated, _next, containers, docker, loop, outsideSM>>

\* _start_container: self._stop_container(session.container_name)
LaunchStartStopContainer(session_id) ==
    /\ At(session_id, "start_stop_container")
    /\ IF StopContainerRaises
       THEN /\ Raise(session_id, "docker not found")
            /\ UNCHANGED containers
       ELSE /\ containers' = StopContainerEffect(_sessions[session_id].container_name)
            /\ Goto(session_id, "start_run")
    /\ UNCHANGED <<_sessions, _allocated, _next, docker, loop, outsideSM>>

\* docker run -d --name <name> -p <port>:8080 ...: the daemon refuses a name
\* or a host port that another container holds, and may fail for other
\* reasons (image, host port held by an unrelated process).
DockerRunCanSucceed(name, port) ==
    /\ name \notin DOMAIN containers
    /\ port \notin PublishedPorts

\* A _start_container that does not look at the exit status of docker run.
LaunchStartRunUnchecked(session_id) ==
    /\ At(session_id, "start_run")
    /\ LET s == _sessions[session_id] IN
       \/ /\ DockerRunCanSucceed(s.container_name, s.port)
          /\ containers' = Put(containers, s.container_name, s.port)
       \/ UNCHANGED containers
    /\ Goto(session_id, "set_running")
    /\ UNCHANGED <<_sessions, _allocated, _next, docker, loop, outsideSM>>

\* _start_container: subprocess.run(docker run ...), RuntimeError on failure
LaunchStartRun(session_id) ==
    /\ At(session_id, "start_run")
    /\ LET s == _sessions[session_id] IN
       \/ /\ DockerRunCanSucceed(s.container_name, s.port)
          /\ containers' = Put(containers, s.container_name, s.port)
          /\ Goto(session_id, "set_running")
       \/ /\ Raise(session_id, "container start failed")
          /\ UNCHANGED containers
    /\ UNCHANGED <<_sessions, _allocated, _next, docker, loop, outsideSM>>

\* update_session(session, status=RUNNING, access_url=access_url)
LaunchSetRunning(session_id) ==
    /\ At(session_id, "set_running")
    /\ _sessions' = [_sessions EXCEPT ![session_id] =
           update_session(@, RUNNING, None, AccessUrl(@.port))]
    /\ Goto(session_id, "returned")
    /\ UNCHANGED <<_allocated, _next, containers, docker, loop, outsideSM>>

\* except Exception: self._ports.release(session.port)
RollbackRelease(session_id) ==
    /\ At(session_id, "rollback_release")
    /\ _allocated' = Release(_allocated, _sessions[session_id].port)
    /\ Goto(session_id, "rollback_stop_container")
    /\ UNCHANGED <<_sessions, _next, containers, docker, loop, outsideSM>>

\* except Exception: self._stop_container(session.container_name); an
\* exception raised here leaves launch_session (pc "raised"; exc stays the
\* exception that was being handled).
RollbackStopContainer(session_id) ==
    /\ At(session_id, "rollback_stop_container")
    /\ IF StopContainerRaises
       THEN /\ Goto(session_id, "raised")
            /\ UNCHANGED containers
       ELSE /\ containers' = StopContainerEffect(_sessions[session_id].container_name)
            /\ launch' = [launch EXCEPT ![session_id].pc = "rollback_update",
                                        ![session_id].removed = TRUE]
    /\ UNCHANGED <<_sessions, _allocated, _next, docker, loop, outsideSM>>

\* except Exception: update_session(session, status=ERROR, error=str(exc))
RollbackUpdate(session_id) ==
    /\ At(session_id, "rollback_update")
    /\ _sessions' = [_sessions EXCEPT ![session_id] =
           update_session(@, ERROR, launch[session_id].exc, <<>>)]
    /\ Goto(session_id, "returned")
    /\ UNCHANGED <<_allocated, _next, containers, docker, loop, outsideSM>>

\* ---------------------------------------------------------- TerminalSession
\* The one session whose terminal is polled.
TermSid == "s1"

\* TerminalSession.__init__ when Popen succeeds: an empty buffer, not closed,
\* the reader thread started at the top of its loop.  pty is what the process
\* has written to the slave side and the reader has not read yet; alive is
\* `self._process.poll() is None`.
Terms == 1 .. Len(terms)

\* The descriptor numbers of the master handles that are open.
OpenFds == {terms[h].fd : h \in {x \in Terms : terms[x].master_open}}

\* self._master_fd, slave_fd = pty.openpty(): the kernel hands out the lowest
\* descriptor number that is not open, so the number of a closed master handle
\* is given to the next one opened.
openpty ==
    CHOOSE n \in 1 .. (Len(terms) + 1) :
        n \notin OpenFds /\ \A m \in 1 .. (n - 1) : m \in OpenFds

\* stdin is what write calls have put on the master handle, each byte marked
\* with the terminal whose write sent it.
TerminalSession(session_id, backend) ==
    [sid |-> session_id, backend |-> backend, fd |-> openpty,
     _buffer |-> <<>>, _closed |-> FALSE, master_open |-> TRUE,
     pty |-> <<>>, alive |-> TRUE, written |-> 0, stdin |-> <<>>,
     pc |-> "poll", ready |-> FALSE, chunk |-> <<>>]
TermIdx == 1 .. MaxTerminals
ReaderAt(g, pc) == g \in Terms /\ terms[g].pc = pc
SetTerm(g, r) == terms' = [terms EXCEPT ![g] = r]

\* The process writes one byte to its terminal (bytes are numbered in the
\* order in which they are produced).
ProcWrite(g) ==
    /\ g \in Terms
    /\ terms[g].alive
    /\ terms[g].written < MaxOutput
    /\ LET b == Len(produced) + 1 IN
         /\ produced' = Append(produced, b)
         /\ SetTerm(g, [terms[g] EXCEPT !.pty = Append(@, b), !.written = @ + 1])
    /\ UNCHANGED <<_terminals, _backend, poller, writer, outsideTerm>>

\* The process exits.
ProcExit(g) ==
    /\ g \in Terms
    /\ terms[g].alive
    /\ SetTerm(g, [terms[g] EXCEPT !.alive = FALSE])
    /\ UNCHANGED <<_terminals, _backend, produced, poller, writer, outsideTerm>>

\* select.select([self._master_fd], [], [], timeout): the master side is
\* readable when unread output is queued; once the process has exited and
\* nothing is queued it may also be reported readable (hang-up), and the
\* read then fails or returns nothing.
SelectReady(t, hup) == t.pty # <<>> \/ (~t.alive /\ hup)

\* A reader that marks the session closed as soon as it sees that the process
\* has exited, before the last output is drained.
ReaderPollMarksClosed(g) ==
    /\ ReaderAt(g, "poll")
    /\ SetTerm(g, [terms[g] EXCEPT
                     !._closed = ~terms[g].alive,
                     !.pc = IF ~terms[g].alive THEN "select_now" ELSE "select"])
    /\ UNCHANGED <<_terminals, _backend, produced, poller, writer, outsideTerm>>

\* while True: if self._process.poll() is not None: (line 201)
ReaderPoll(g) ==
    /\ ReaderAt(g, "poll")
    /\ SetTerm(g, [terms[g] EXCEPT
                     !.pc = IF ~terms[g].alive THEN "select_now" ELSE "select"])
    /\ UNCHANGED <<_terminals, _backend, produced, poller, writer, outsideTerm>>

\* ready = select(..., 0); if not ready: break (lines 202-204)
ReaderSelectNow(g) ==
    /\ ReaderAt(g, "select_now")
    /\ \E hup \in BOOLEAN :
         LET r == SelectReady(terms[g], hup) IN
         SetTerm(g, [terms[g] EXCEPT !.ready = r,
                                     !.pc = IF r THEN "select" ELSE "finally"])
    /\ UNCHANGED <<_terminals, _backend, produced, poller, writer, outsideTerm>>

\* ready = select(..., 0.2); if self._master_fd in ready: (lines 205-206)
ReaderSelect(g) ==
    /\ ReaderAt(g, "select")
    /\ \E hup \in BOOLEAN :
         LET r == SelectReady(terms[g], hup) IN
         SetTerm(g, [terms[g] EXCEPT !.ready = r,
                                     !.pc = IF r THEN "read" ELSE "exit_check"])
    /\ UNCHANGED <<_terminals, _backend, produced, poller, writer, outsideTerm>>

\* A reader that goes on when os.read fails or returns nothing.
ReaderReadNoBreak(g) ==
    /\ ReaderAt(g, "read")
    /\ IF terms[g].pty = <<>>
       THEN SetTerm(g, [terms[g] EXCEPT !.pc = "exit_check"])
       ELSE \E k \in 1 .. Len(terms[g].pty) :
              /\ k <= ReadSize
              /\ SetTerm(g, [terms[g] EXCEPT
                     !.chunk = SubSeq(terms[g].pty, 1, k),
                     !.pty = SubSeq(terms[g].pty, k + 1, Len(terms[g].pty)),
                     !.pc = "extend"])
    /\ UNCHANGED <<_terminals, _backend, produced, poller, writer, outsideTerm>>

\* chunk = os.read(self._master_fd, 4096): some non-empty prefix of what is
\* queued, at most ReadSize bytes; with nothing queued OSError or b"": break
\* (lines 207-212)
ReaderRead(g) ==
    /\ ReaderAt(g, "read")
    /\ IF terms[g].pty = <<>>
       THEN SetTerm(g, [terms[g] EXCEPT !.pc = "finally"])
       ELSE \E k \in 1 .. Len(terms[g].pty) :
              /\ k <= ReadSize
              /\ SetTerm(g, [terms[g] EXCEPT
                     !.chunk = SubSeq(terms[g].pty, 1, k),
                     !.pty = SubSeq(terms[g].pty, k + 1, Len(terms[g].pty)),
                     !.pc = "extend"])
    /\ UNCHANGED <<_terminals, _backend, produced, poller, writer, outsideTerm>>

\* A reader that assigns the chunk to the buffer instead of extending it.
ReaderReplace(g) ==
    /\ ReaderAt(g, "extend")
    /\ SetTerm(g, [terms[g] EXCEPT !._buffer = terms[g].chunk,
                                  !.chunk = <<>>, !.pc = "exit_check"])
    /\ UNCHANGED <<_terminals, _backend, produced, poller, writer, outsideTerm>>

\* with self._lock: self._buffer.extend(chunk) (lines 213-214)
ReaderExtend(g) ==
    /\ ReaderAt(g, "extend")
    /\ SetTerm(g, [terms[g] EXCEPT !._buffer = @ \o terms[g].chunk,
                                  !.chunk = <<>>, !.pc = "exit_check"])
    /\ UNCHANGED <<_terminals, _backend, produced, poller, writer, outsideTerm>>

\* The condition of line 215 on which the loop is left.
ExitCheckBreaks(t) == ~t.alive /\ ~t.ready

\* if self._process.poll() is not None and not ready: break (lines 215-216)
ReaderExitCheck(g) ==
    /\ ReaderAt(g, "exit_check")
    /\ SetTerm(g, [terms[g] EXCEPT
                     !.pc = IF ExitCheckBreaks(terms[g]) THEN "finally" ELSE "poll"])
    /\ UNCHANGED <<_terminals, _backend, produced, poller, writer, outsideTerm>>

\* finally: with self._lock: self._closed = True (lines 217-219)
ReaderFinally(g) ==
    /\ ReaderAt(g, "finally")
    /\ SetTerm(g, [terms[g] EXCEPT !._closed = TRUE, !.pc = "close"])
    /\ UNCHANGED <<_terminals, _backend, produced, poller, writer, outsideTerm>>

\* os.close(self._master_fd): what is still queued is discarded (lines 220-223)
ReaderClose(g) ==
    /\ ReaderAt(g, "close")
    /\ SetTerm(g, [terms[g] EXCEPT !.master_open = FALSE, !.pc = "done"])
    /\ UNCHANGED <<_terminals, _backend, produced, poller, writer, outsideTerm>>

\* A read without the `if offset < 0` clamp: the slice self._buffer[offset:]
\* with a negative offset counts from the end of the buffer.
readUnclamped(t, offset) ==
    LET n == Len(t._buffer)
        o1 == IF offset < 0
              THEN (IF n + offset < 0 THEN 0 ELSE n + offset)
              ELSE offset
        o2 == IF o1 > n THEN n ELSE o1
    IN  [new_offset |-> n,
         data |-> SubSeq(t._buffer, o2 + 1, n),
         closed |-> t._closed]

\* A read whose slice starts one byte early: self._buffer[offset - 1:].
readOverlap(t, offset) ==
    LET n == Len(t._buffer)
        o1 == IF offset < 0 THEN 0 ELSE offset
        o2 == IF o1 > n THEN n ELSE o1
        from == IF o2 > 0 THEN o2 - 1 ELSE 0
    IN  [new_offset |-> n,
         data |-> SubSeq(t._buffer, from + 1, n),
         closed |-> t._closed]

\* read(offset), inside the lock
read(t, offset) ==
    LET o1 == IF offset < 0 THEN 0 ELSE offset
        o2 == IF o1 > Len(t._buffer) THEN Len(t._buffer) ELSE o1
    IN  [new_offset |-> Len(t._buffer),
         data |-> SubSeq(t._buffer, o2 + 1, Len(t._buffer)),
         closed |-> t._closed]

\* write(data): with self._lock: if self._closed: raise RuntimeError (lines
\* 190-192).  The result: the caller's next position.
write_check(t) == IF t._closed THEN "closed_error" ELSE "os_write"

\* The terminal whose master handle the descriptor number fd names, 0 if none.
FdTarget(fd) ==
    IF \E h \in Terms : terms[h].master_open /\ terms[h].fd = fd
    THEN CHOOSE h \in Terms : terms[h].master_open /\ terms[h].fd = fd
    ELSE 0

\* ---------------------------------------------------------- TerminalManager
\* An ensure that restarts the registered terminal object when it is closed,
\* instead of constructing a new one.
ensureRevive(session_id, ok, ok_host) ==
    LET existing == IF session_id \in DOMAIN _terminals
                    THEN _terminals[session_id] ELSE 0
        fresh == Len(terms) + 1
    IN  IF existing # 0 /\ ~terms[existing]._closed
        THEN [terminal |-> existing, terminals |-> _terminals,
              backend |-> _backend, terms |-> terms]
        ELSE IF existing # 0 /\ ok
        THEN [terminal |-> existing, terminals |-> _terminals,
              backend |-> _backend,
              terms |-> [terms EXCEPT
                           ![existing] = [@ EXCEPT !._closed = FALSE,
                                                   !.alive = TRUE,
                                                   !.pc = "poll"]]]
        ELSE IF ok
        THEN [terminal |-> fresh,
              terminals |-> Put(_terminals, session_id, fresh),
              backend |-> _backend,
              terms |-> Append(terms, [sid |-> session_id, backend |-> _backend,
                  fd |-> openpty, _buffer |-> <<>>, _closed |-> FALSE,
                  master_open |-> TRUE, pty |-> <<>>, alive |-> TRUE,
                  written |-> 0, stdin |-> <<>>, pc |-> "poll",
                  ready |-> FALSE, chunk |-> <<>>])]
        ELSE [terminal |-> 0, terminals |-> _terminals,
              backend |-> None, terms |-> terms]

\* An ensure without the `or terminal.closed` test: a registered terminal is
\* returned whether or not it is closed.
ensureKeepClosed(session_id, ok, ok_host) ==
    LET existing == IF session_id \in DOMAIN _terminals
                    THEN _terminals[session_id] ELSE 0
        fresh == Len(terms) + 1
    IN  IF existing # 0
        THEN [terminal |-> existing, terminals |-> _terminals,
              backend |-> _backend, terms |-> terms]
        ELSE IF ok
        THEN [terminal |-> fresh,
              terminals |-> Put(_terminals, session_id, fresh),
              backend |-> _backend,
              terms |-> Append(terms, TerminalSession(session_id, _backend))]
        ELSE IF _backend # None /\ ok_host
        THEN [terminal |-> fresh,
              terminals |-> Put(_terminals, session_id, fresh),
              backend |-> None,
              terms |-> Append(terms, TerminalSession(session_id, None))]
        ELSE [terminal |-> 0, terminals |-> _terminals,
              backend |-> None, terms |-> terms]

\* An ensure that clears self._backend when the container-backed construction
\* fails and raises, leaving the host shell to the next call.
ensureNoRetry(session_id, ok, ok_host) ==
    LET existing == IF session_id \in DOMAIN _terminals
                    THEN _terminals[session_id] ELSE 0
        fresh == Len(terms) + 1
    IN  IF existing # 0 /\ ~terms[existing]._closed
        THEN [terminal |-> existing, terminals |-> _terminals,
              backend |-> _backend, terms |-> terms]
        ELSE IF ok
        THEN [terminal |-> fresh,
              terminals |-> Put(_terminals, session_id, fresh),
              backend |-> _backend,
              terms |-> Append(terms, TerminalSession(session_id, _backend))]
        ELSE [terminal |-> 0, terminals |-> _terminals,
              backend |-> None, terms |-> terms]

\* An ensure that falls back to the host shell for the terminal at hand but
\* does not clear self._backend.
ensureKeepBackend(session_id, ok, ok_host) ==
    LET existing == IF session_id \in DOMAIN _terminals
                    THEN _terminals[session_id] ELSE 0
        fresh == Len(terms) + 1
    IN  IF existing # 0 /\ ~terms[existing]._closed
        THEN [terminal |-> existing, terminals |-> _terminals,
              backend |-> _backend, terms |-> terms]
        ELSE IF ok
        THEN [terminal |-> fresh,
              terminals |-> Put(_terminals, session_id, fresh),
              backend |-> _backend,
              terms |-> Append(terms, TerminalSession(session_id, _backend))]
        ELSE IF _backend # None /\ ok_host
        THEN [terminal |-> fresh,
              terminals |-> Put(_terminals, session_id, fresh),
              backend |-> _backend,
              terms |-> Append(terms, TerminalSession(session_id, None))]
        ELSE [terminal |-> 0, terminals |-> _terminals,
              backend |-> _backend, terms |-> terms]

\* ensure, inside the manager's lock.  ok says whether Popen succeeds with the
\* selected backend, ok_host whether it succeeds with the host shell when the
\* container backend has failed.  The result: the terminal's index (0 when
\* RuntimeError is raised), and the manager's state after the call.
ensure(session_id, ok, ok_host) ==
    LET existing == IF session_id \in DOMAIN _terminals
                    THEN _terminals[session_id] ELSE 0
        fresh == Len(terms) + 1
    IN  IF existing # 0 /\ ~terms[existing]._closed
        THEN [terminal |-> existing, terminals |-> _terminals,
              backend |-> _backend, terms |-> terms]
        ELSE IF ok
        THEN [terminal |-> fresh,
              terminals |-> Put(_terminals, session_id, fresh),
              backend |-> _backend,
              terms |-> Append(terms, TerminalSession(session_id, _backend))]
        ELSE IF _backend # None /\ ok_host
        THEN [terminal |-> fresh,
              terminals |-> Put(_terminals, session_id, fresh),
              backend |-> None,
              terms |-> Append(terms, TerminalSession(session_id, None))]
        ELSE [terminal |-> 0, terminals |-> _terminals,
              backend |-> None, terms |-> terms]

\* ------------------------------------- TerminalManager, statement by statement
\* Threads that call ensure(TermSid, ...) concurrently, one call each.  The
\* `with self._lock` is taken and left explicitly.  terminal is the local
\* variable of ensure; fresh says that no terminal was registered for the id
\* when the call was made, overlapped that another call was in progress at
\* some moment of this one.
EnsurerIdle == [pc |-> "idle", terminal |-> 0, fresh |-> FALSE,
                overlapped |-> FALSE]

InCall(t) == ensurers[t].pc \notin {"idle", "returned", "raised"}

\* A manager whose ensure does not take the lock.
NoManagerLock == TRUE

\* threading.Lock: `with self._lock` blocks until no thread holds the lock.
EnsureLockIsFree == terminals_lock = 0

\* A thread calls ensure and reaches `with self._lock` (line 244).
EnsureCall(t) ==
    /\ ensurers[t].pc = "idle"
    /\ ensurers' = [u \in Callers |->
          IF u = t
          THEN [ensurers[t] EXCEPT
                  !.pc = "lock",
                  !.fresh = (TermSid \notin DOMAIN _terminals),
                  !.overlapped = \E v \in Callers \ {t} : InCall(v)]
          ELSE IF InCall(u) THEN [ensurers[u] EXCEPT !.overlapped = TRUE]
          ELSE ensurers[u]]
    /\ UNCHANGED <<terminals_lock, _terminals, _backend, terms, outsideEnsure>>

SetEnsurer(t, r) == ensurers' = [ensurers EXCEPT ![t] = r]

\* with self._lock: (line 244)
EnsureLock(t) ==
    /\ ensurers[t].pc = "lock"
    /\ EnsureLockIsFree
    /\ terminals_lock' = t
    /\ SetEnsurer(t, [ensurers[t] EXCEPT !.pc = "get"])
    /\ UNCHANGED <<_terminals, _backend, terms, outsideEnsure>>

\* terminal = self._terminals.get(session_id);
\* if terminal is None or terminal.closed: (lines 245-246)
EnsureGet(t) ==
    /\ ensurers[t].pc = "get"
    /\ LET terminal == IF TermSid \in DOMAIN _terminals
                       THEN _terminals[TermSid] ELSE 0
       IN  SetEnsurer(t, [ensurers[t] EXCEPT
               !.terminal = terminal,
               !.pc = IF terminal = 0 THEN "construct"
                      ELSE IF terms[terminal]._closed THEN "construct"
                      ELSE "return"])
    /\ UNCHANGED <<terminals_lock, _terminals, _backend, terms, outsideEnsure>>

\* try: terminal = TerminalSession(session_id, session_dir, self._backend);
\* except RuntimeError: with a container backend selected, self._backend =
\* None and the retry is next; otherwise the exception leaves ensure, and the
\* with block releases the lock (lines 248-259)
EnsureConstruct(t) ==
    /\ ensurers[t].pc = "construct"
    /\ Len(terms) < MaxTerminals
    /\ \E ok \in BOOLEAN :
         IF ok
         THEN /\ terms' = Append(terms, TerminalSession(TermSid, _backend))
              /\ SetEnsurer(t, [ensurers[t] EXCEPT !.terminal = Len(terms) + 1,
                                                   !.pc = "register"])
              /\ UNCHANGED <<terminals_lock, _backend>>
         ELSE IF _backend # None
         THEN /\ _backend' = None
              /\ SetEnsurer(t, [ensurers[t] EXCEPT !.pc = "construct_host"])
              /\ UNCHANGED <<terminals_lock, terms>>
         ELSE /\ terminals_lock' = 0
              /\ SetEnsurer(t, [ensurers[t] EXCEPT !.pc = "raised",
                                                   !.terminal = 0])
              /\ UNCHANGED <<_backend, terms>>
    /\ UNCHANGED <<_terminals, outsideEnsure>>

\* terminal = TerminalSession(session_id, session_dir, None); a RuntimeError
\* leaves ensure (line 257)
EnsureConstructHost(t) ==
    /\ ensurers[t].pc = "construct_host"
    /\ Len(terms) < MaxTerminals
    /\ \E ok \in BOOLEAN :
         IF ok
         THEN /\ terms' = Append(terms, TerminalSession(TermSid, None))
              /\ SetEnsurer(t, [ensurers[t] EXCEPT !.terminal = Len(terms) + 1,
                                                   !.pc = "register"])
              /\ UNCHANGED terminals_lock
         ELSE /\ terminals_lock' = 0
              /\ SetEnsurer(t, [ensurers[t] EXCEPT !.pc = "raised",
                                                   !.terminal = 0])
              /\ UNCHANGED terms
    /\ UNCHANGED <<_terminals, _backend, outsideEnsure>>

\* self._terminals[session_id] = terminal (line 260)
EnsureRegister(t) ==
    /\ ensurers[t].pc = "register"
    /\ _terminals' = Put(_terminals, TermSid, ensurers[t].terminal)
    /\ SetEnsurer(t, [ensurers[t] EXCEPT !.pc = "return"])
    /\ UNCHANGED <<terminals_lock, _backend, terms, outsideEnsure>>

\* return terminal, leaving the with block (line 261)
EnsureReturn(t) ==
    /\ ensurers[t].pc = "return"
    /\ terminals_lock' = 0
    /\ SetEnsurer(t, [ensurers[t] EXCEPT !.pc = "returned"])
    /\ UNCHANGED <<_terminals, _backend, terms, outsideEnsure>>
\* The polling client: offset is the offset its last response carried (0 at
\* first), received what its responses delivered so far.
PollerIdle == [pc |-> "idle", terminal |-> 0, offset |-> 0, received |-> <<>>,
               closed |-> FALSE]

\* terminal = TERMINAL_MANAGER.ensure(session.session_id, session.session_dir)
PollEnsure ==
    /\ poller.pc = "idle"
    /\ \E ok, ok_host \in BOOLEAN :
         LET r == ensure(TermSid, ok, ok_host) IN
         /\ Len(r.terms) <= MaxTerminals
         /\ _terminals' = r.terminals
         /\ _backend' = r.backend
         /\ terms' = r.terms
         /\ poller' = [poller EXCEPT
                          !.pc = IF r.terminal = 0 THEN "raised" ELSE "read",
                          !.terminal = r.terminal]
    /\ UNCHANGED <<produced, writer, outsideTerm>>

\* A poll whose read consumes what it returns, as a queue pop would.
PollReadPop ==
    /\ poller.pc = "read"
    /\ LET r == read(terms[poller.terminal], poller.offset) IN
         poller' = [poller EXCEPT !.pc = "idle", !.offset = r.new_offset,
                                  !.received = @ \o r.data, !.closed = r.closed]
    /\ terms' = [terms EXCEPT ![poller.terminal]._buffer = <<>>]
    /\ UNCHANGED <<_terminals, _backend, produced, writer, outsideTerm>>

\* new_offset, output, closed = terminal.read(offset); the response carries them
PollRead ==
    /\ poller.pc = "read"
    /\ LET r == read(terms[poller.terminal], poller.offset) IN
         poller' = [poller EXCEPT !.pc = "idle", !.offset = r.new_offset,
                                  !.received = @ \o r.data, !.closed = r.closed]
    /\ UNCHANGED <<_terminals, _backend, terms, produced, writer, outsideTerm>>

\* ensure raised RuntimeError: the request fails, the client polls again
PollFailed ==
    /\ poller.pc = "raised"
    /\ poller' = [poller EXCEPT !.pc = "idle"]
    /\ UNCHANGED <<_terminals, _backend, terms, produced, writer, outsideTerm>>

\* ------------------------------------------------ _handle_api_terminal_input
\* The client that sends input: count is the number of its requests so far.
\* Each request ends with its response: {"status": "ok"}, the 400 that carries
\* the RuntimeError of write, or the failure of the request when ensure raised.
WriterIdle == [pc |-> "idle", terminal |-> 0, count |-> 0]

\* The request is answered: the client is idle again.
Answered == [writer EXCEPT !.pc = "idle", !.terminal = 0]

\* terminal = TERMINAL_MANAGER.ensure(session.session_id, session.session_dir)
WriteEnsure ==
    /\ writer.pc = "idle"
    /\ writer.count < MaxWrites
    /\ \E ok, ok_host \in BOOLEAN :
         LET r == ensure(TermSid, ok, ok_host) IN
         /\ Len(r.terms) <= MaxTerminals
         /\ _terminals' = r.terminals
         /\ _backend' = r.backend
         /\ terms' = r.terms
         /\ writer' = IF r.terminal = 0
                      THEN [writer EXCEPT !.count = @ + 1]
                      ELSE [writer EXCEPT !.pc = "check",
                                          !.terminal = r.terminal,
                                          !.count = @ + 1]
    /\ UNCHANGED <<produced, poller, outsideTerm>>

\* terminal.write(chunk): the closed check inside the lock; RuntimeError when
\* the session is closed
WriteCheck ==
    /\ writer.pc = "check"
    /\ writer' = IF write_check(terms[writer.terminal]) = "closed_error"
                 THEN Answered
                 ELSE [writer EXCEPT !.pc = "os_write"]
    /\ UNCHANGED <<_terminals, _backend, terms, produced, poller, outsideTerm>>

\* terminal.write(chunk): os.write(self._master_fd, data) outside the lock.
\* The bytes go to whatever the descriptor number names at that moment; a
\* number that names nothing raises OSError, and so may a handle whose process
\* has exited (lines 193-196).
WriteOs ==
    /\ writer.pc = "os_write"
    /\ LET h == FdTarget(terms[writer.terminal].fd) IN
       \/ /\ h # 0
          /\ terms' = [terms EXCEPT ![h].stdin = Append(@, writer.terminal)]
       \/ /\ IF h = 0 THEN TRUE ELSE ~terms[h].alive
          /\ UNCHANGED terms
    /\ writer' = Answered
    /\ UNCHANGED <<_terminals, _backend, produced, poller, outsideTerm>>

\* ------------------------------------------------------------------- Locks
\* The locks (threading.Lock, not re-entrant) and the order in which each
\* method takes and leaves them.
PortsLock == "PortAllocator._lock"
SessionsLock == "SessionManager._lock"
StoreLock == "SessionStore._lock"
ManagerLock == "TerminalManager._lock"
BufferLock == "TerminalSession._lock"

LockNames == {PortsLock, SessionsLock, StoreLock, ManagerLock, BufferLock}

Enter(lock) == [a |-> "acquire", lock |-> lock]
Leave(lock) == [a |-> "release", lock |-> lock]

\* create_session keeping the allocator's lock until the session is recorded
create_session_holds_ports ==
    <<Enter(PortsLock), Enter(SessionsLock), Leave(SessionsLock), Leave(PortsLock)>>

\* create_session: self._ports.acquire(session_id), later with self._lock
create_session_locks ==
    <<Enter(PortsLock), Leave(PortsLock), Enter(SessionsLock), Leave(SessionsLock)>>

\* launch_session: the rollback's self._ports.release(session.port);
\* update_session and get_session take no lock
launch_session_locks == <<Enter(PortsLock), Leave(PortsLock)>>

\* stop_session: self._ports.release(session.port)
stop_session_locks == <<Enter(PortsLock), Leave(PortsLock)>>

\* list_sessions: with self._lock
list_sessions_locks == <<Enter(SessionsLock), Leave(SessionsLock)>>

\* SessionStore.add / list / get: with self._lock
session_store_locks == <<Enter(StoreLock), Leave(StoreLock)>>

\* TerminalManager.ensure for an id that has a terminal: with self._lock, and
\* inside it terminal.closed, which takes the terminal's lock
ensure_locks ==
    <<Enter(ManagerLock), Enter(BufferLock), Leave(BufferLock), Leave(ManagerLock)>>

\* TerminalManager.ensure for an id without terminal, and TerminalManager.get
ensure_new_locks == <<Enter(ManagerLock), Leave(ManagerLock)>>

\* TerminalSession.read
read_locks == <<Enter(BufferLock), Leave(BufferLock)>>

\* TerminalSession.write: the closed check is in the lock, os.write is not
write_locks == <<Enter(BufferLock), Leave(BufferLock)>>

\* _drain_output: one chunk appended, then the session marked closed
drain_output_locks ==
    <<Enter(BufferLock), Leave(BufferLock), Enter(BufferLock), Leave(BufferLock)>>

Methods ==
    {"create_session", "launch_session", "stop_session", "list_sessions",
     "SessionStore", "ensure", "ensure_new", "read", "write", "_drain_output"}

LockSteps(method) ==
    CASE method = "create_session" -> create_session_locks
      [] method = "launch_session" -> launch_session_locks
      [] method = "stop_session" -> stop_session_locks
      [] method = "list_sessions" -> list_sessions_locks
      [] method = "SessionStore" -> session_store_locks
      [] method = "ensure" -> ensure_locks
      [] method = "ensure_new" -> ensure_new_locks
      [] method = "read" -> read_locks
      [] method = "write" -> write_locks
      [] method = "_drain_output" -> drain_output_locks
      [] OTHER -> <<>>

ThreadIdle == [method |-> "idle", pc |-> 1]

\* The statement the thread is at, when it is at one.
AtStep(t) == threads[t].pc <= Len(LockSteps(threads[t].method))
StepOf(t) == LockSteps(threads[t].method)[threads[t].pc]

outsideLocks == <<_sessions, _allocated, _next, containers, docker, launch,
                  loop, allocVars, termVars, last, ensureVars, fileVars,
                  portalVars>>

\* A thread enters a method.
ThreadCall(t, method) ==
    /\ threads[t] = ThreadIdle
    /\ threads' = [threads EXCEPT ![t] = [method |-> method, pc |-> 1]]
    /\ UNCHANGED <<lock_holder, outsideLocks>>

\* with lock: the thread proceeds once the lock is free, and holds it.
ThreadAcquire(t) ==
    /\ AtStep(t)
    /\ StepOf(t).a = "acquire"
    /\ lock_holder[StepOf(t).lock] = 0
    /\ lock_holder' = [lock_holder EXCEPT ![StepOf(t).lock] = t]
    /\ threads' = [threads EXCEPT ![t].pc = @ + 1]
    /\ UNCHANGED outsideLocks

\* The end of a with block.
ThreadRelease(t) ==
    /\ AtStep(t)
    /\ StepOf(t).a = "release"
    /\ lock_holder' = [lock_holder EXCEPT ![StepOf(t).lock] = 0]
    /\ threads' = [threads EXCEPT ![t].pc = @ + 1]
    /\ UNCHANGED outsideLocks

\* The method returns.
ThreadReturn(t) ==
    /\ threads[t].method # "idle"
    /\ ~AtStep(t)
    /\ threads' = [threads EXCEPT ![t] = ThreadIdle]
    /\ UNCHANGED <<lock_holder, outsideLocks>>

\* ------------------------------------------------------------------- Files
\* A path string is a sequence of characters; an escape such as %2e is one
\* element of it.  A resolved path is the sequence of its components below
\* the file system's root, each component a sequence of characters.
MaxPath == 5

PathChars == {"w", " ", ".", "/", "%2e"}

Wire == UNION {[1..n -> PathChars] : n \in 0..MaxPath}

\* session.session_dir.resolve(): the directory /w
Base == << <<"w">> >>

\* The path in the workspace that may be a symbolic link, and its target (/).
LinkPath == << <<"w">>, <<"w">> >>
LinkTarget == <<>>

\* urllib.parse.unquote: every escape is replaced by the character it
\* encodes, in one pass.
unquote(string) ==
    [i \in 1..Len(string) |-> IF string[i] = "%2e" THEN "." ELSE string[i]]

RECURSIVE lstrip(_)
lstrip(string) ==
    IF string # <<>> /\ Head(string) = " " THEN lstrip(Tail(string)) ELSE string

RECURSIVE rstrip(_)
rstrip(string) ==
    IF string # <<>> /\ string[Len(string)] = " "
    THEN rstrip(SubSeq(string, 1, Len(string) - 1))
    ELSE string

\* str.strip
strip(string) == rstrip(lstrip(string))

\* The components of a path string, as separated by "/".
RECURSIVE split(_)
split(string) ==
    IF string = <<>> THEN << <<>> >>
    ELSE LET rest == split(Tail(string)) IN
         IF Head(string) = "/" THEN << <<>> >> \o rest
         ELSE << <<Head(string)>> \o Head(rest) >> \o Tail(rest)

\* base / string: an absolute string replaces the base.
join(base, string) ==
    [from |-> IF string # <<>> /\ Head(string) = "/" THEN <<>> ELSE base,
     parts |-> split(string)]

\* Path.resolve (os.path.realpath): empty and "." components are dropped,
\* ".." leaves the directory reached so far (the root is its own parent),
\* and a symbolic link is replaced by its target when it is reached.
RECURSIVE walk(_, _, _)
walk(at, parts, link) ==
    IF parts = <<>> THEN at
    ELSE LET part == Head(parts) IN
         IF part = <<>> \/ part = <<".">> THEN walk(at, Tail(parts), link)
         ELSE IF part = <<".", ".">>
         THEN walk(IF at = <<>> THEN <<>> ELSE SubSeq(at, 1, Len(at) - 1),
                   Tail(parts), link)
         ELSE LET below == Append(at, part) IN
              walk(IF link /\ below = LinkPath THEN LinkTarget ELSE below,
                   Tail(parts), link)

resolve(path, link) == walk(path.from, path.parts, link)

\* Path.parents: the proper ancestors of a resolved path.
parents(path) == {SubSeq(path, 1, k) : k \in 0..(Len(path) - 1)}

\* Path.parent
parent(path) == IF path = <<>> THEN <<>> ELSE SubSeq(path, 1, Len(path) - 1)

\* str(path) of a resolved path.
RECURSIVE str(_)
str(path) == IF path = <<>> THEN <<>> ELSE <<"/">> \o Head(path) \o str(Tail(path))

\* str.startswith
startswith(string, prefix) ==
    Len(prefix) <= Len(string) /\ SubSeq(string, 1, Len(prefix)) = prefix

\* _resolve_session_path comparing the paths as strings.
_resolve_session_path_startswith(raw_path, link) ==
    LET raw == strip(raw_path) IN
    IF raw = <<>> THEN [ok |-> TRUE, path |-> Base]
    ELSE LET candidate == resolve(join(Base, unquote(raw)), link) IN
         IF ~startswith(str(candidate), str(Base))
         THEN [ok |-> FALSE, path |-> None]
         ELSE [ok |-> TRUE, path |-> candidate]

\* _resolve_session_path: ok is FALSE when WorkspaceError is raised.
_resolve_session_path(raw_path, link) ==
    LET raw == strip(raw_path) IN
    IF raw = <<>> THEN [ok |-> TRUE, path |-> Base]
    ELSE LET candidate == resolve(join(Base, unquote(raw)), link) IN
         IF Base \notin parents(candidate) /\ candidate # Base
         THEN [ok |-> FALSE, path |-> None]
         ELSE [ok |-> TRUE, path |-> candidate]

\* No request is being handled.  A handled request records the raw_path given
\* to _resolve_session_path, the state of the link when it was resolved, the
\* response, and the resolved paths the handler touched in the file system.
NoFileRequest ==
    [handler |-> "none", raw_path |-> <<>>, link |-> FALSE,
     response |-> "none", accessed |-> {}]

outsideFiles == <<_sessions, _allocated, _next, containers, docker, launch,
                  loop, allocVars, termVars, last, ensureVars, lockVars,
                  portalVars>>

\* GET .../tree?path=: parse_qs has unquoted the query value once; a
\* WorkspaceError is answered at once, otherwise target.is_dir() and
\* target.iterdir() read the target.
_handle_api_tree(wire) ==
    /\ file_request = NoFileRequest
    /\ LET raw_path == unquote(wire)
           target == _resolve_session_path(raw_path, symlink) IN
       \E is_dir \in BOOLEAN :
           file_request' =
               [handler |-> "tree", raw_path |-> raw_path, link |-> symlink,
                response |-> IF ~target.ok THEN "escape"
                             ELSE IF is_dir THEN "ok" ELSE "bad_request",
                accessed |-> IF target.ok THEN {target.path} ELSE {}]
    /\ UNCHANGED <<symlink, outsideFiles>>

\* GET .../file?path=: target.is_dir(), then target.read_text, which may
\* fail with OSError.
_handle_api_read_file(wire) ==
    /\ file_request = NoFileRequest
    /\ LET raw_path == unquote(wire)
           target == _resolve_session_path(raw_path, symlink) IN
       \E readable \in BOOLEAN :
           file_request' =
               [handler |-> "read_file", raw_path |-> raw_path, link |-> symlink,
                response |-> IF ~target.ok THEN "escape"
                             ELSE IF readable THEN "ok" ELSE "bad_request",
                accessed |-> IF target.ok THEN {target.path} ELSE {}]
    /\ UNCHANGED <<symlink, outsideFiles>>

\* PUT .../file with the path in the JSON body: target.is_dir(), then
\* target.parent.mkdir(parents=True, exist_ok=True) and target.write_text.
_handle_api_write_file(path) ==
    /\ file_request = NoFileRequest
    /\ LET target == _resolve_session_path(path, symlink) IN
       \E is_dir \in BOOLEAN, written \in BOOLEAN :
           /\ (target.ok /\ target.path = Base) => is_dir
           /\ file_request' =
               [handler |-> "write_file", raw_path |-> path, link |-> symlink,
                response |-> IF ~target.ok THEN "escape"
                             ELSE IF ~is_dir /\ written THEN "ok"
                             ELSE "bad_request",
                accessed |-> IF ~target.ok THEN {}
                             ELSE IF is_dir THEN {target.path}
                             ELSE {target.path, parent(target.path)}]
    /\ UNCHANGED <<symlink, outsideFiles>>

\* The response is sent; the server takes the next request.
FileRespond ==
    /\ file_request # NoFileRequest
    /\ file_request' = NoFileRequest
    /\ UNCHANGED <<symlink, outsideFiles>>

\* Between requests a user of the terminal makes LinkPath a symbolic link to
\* LinkTarget, or a plain directory again.
LinkChange ==
    /\ file_request = NoFileRequest
    /\ symlink' = ~symlink
    /\ UNCHANGED <<file_request, outsideFiles>>

\* ---------------------------------------------------------- shutdown_event
\* The shutdown sweep: stop_session for every session that list_sessions
\* returned, each call in a thread of the executor.  tasks gives the position
\* of each call; launch is the state of the launch threads when the sweep
\* began.
NoSweep == [state |-> "none", tasks |-> EmptyDict, launch |-> EmptyDict]

outsideSweep == <<allocVars, termVars, last, ensureVars, lockVars, fileVars,
                  folderVars, viewVars>>

TaskAt(session_id, pc) ==
    /\ sweep.state = "running"
    /\ session_id \in DOMAIN sweep.tasks
    /\ sweep.tasks[session_id] = pc

TaskGoto(session_id, pc) ==
    sweep' = [sweep EXCEPT !.tasks[session_id] = pc]

\* sessions = manager.list_sessions(); tasks = [run_in_executor(...) ...]
SweepBegin ==
    /\ loop = Idle
    /\ sweep = NoSweep
    /\ sweep' = [state |-> "running",
                 tasks |-> [s \in DOMAIN _sessions |-> "stop_container"],
                 launch |-> launch]
    /\ loop' = [Idle EXCEPT !.op = "shutdown", !.pc = "gather"]
    /\ UNCHANGED <<_sessions, _allocated, _next, containers, docker, launch,
                   outsideSweep>>

\* stop_session in its thread: self._stop_container(session.container_name)
SweepStopContainer(session_id) ==
    /\ TaskAt(session_id, "stop_container")
    /\ IF StopContainerRaises
       THEN /\ TaskGoto(session_id, "raised")
            /\ UNCHANGED containers
       ELSE /\ containers' =
                  StopContainerEffect(_sessions[session_id].container_name)
            /\ TaskGoto(session_id, "release")
    /\ UNCHANGED <<_sessions, _allocated, _next, docker, launch, loop,
                   outsideSweep>>

\* stop_session in its thread: self._ports.release(session.port)
SweepRelease(session_id) ==
    /\ TaskAt(session_id, "release")
    /\ _allocated' = Release(_allocated, _sessions[session_id].port)
    /\ TaskGoto(session_id, "update")
    /\ UNCHANGED <<_sessions, _next, containers, docker, launch, loop,
                   outsideSweep>>

\* stop_session in its thread: update_session(session, status=STOPPED)
SweepUpdate(session_id) ==
    /\ TaskAt(session_id, "update")
    /\ _sessions' = [_sessions EXCEPT
                       ![session_id] = update_session(@, STOPPED, None, <<>>)]
    /\ TaskGoto(session_id, "done")
    /\ UNCHANGED <<_allocated, _next, containers, docker, launch, loop,
                   outsideSweep>>

\* await asyncio.gather(*tasks) is over: every call has returned or raised.
SweepEnd ==
    /\ sweep.state = "running"
    /\ \A s \in DOMAIN sweep.tasks : sweep.tasks[s] \in {"done", "raised"}
    /\ sweep' = [sweep EXCEPT !.state = "complete"]
    /\ loop' = [loop EXCEPT !.pc = "exited"]
    /\ UNCHANGED <<_sessions, _allocated, _next, containers, docker, launch,
                   outsideSweep>>

\* ---------------------------------------------- create_session: the folder
\* Project names are short strings over these characters.
MaxName == 2
MaxClock == 1
NameChars == {"a", "B", " "}
ProjectNames == UNION {[1..n -> NameChars] : n \in 0..MaxName}

\* value.strip().lower()
Lower(ch) == IF ch = "B" THEN "b" ELSE ch

RECURSIVE LStripChar(_, _)
LStripChar(string, ch) ==
    IF string # <<>> /\ Head(string) = ch THEN LStripChar(Tail(string), ch)
    ELSE string

RECURSIVE RStripChar(_, _)
RStripChar(string, ch) ==
    IF string # <<>> /\ string[Len(string)] = ch
    THEN RStripChar(SubSeq(string, 1, Len(string) - 1), ch)
    ELSE string

StripChar(string, ch) == RStripChar(LStripChar(string, ch), ch)

\* The loop of slugify: letters and digits are kept, any other character
\* becomes a dash unless a dash was just written.
RECURSIVE SlugChars(_, _)
SlugChars(value, prev_dash) ==
    IF value = <<>> THEN <<>>
    ELSE IF Head(value) \in {"a", "b"}
    THEN <<Head(value)>> \o SlugChars(Tail(value), FALSE)
    ELSE IF prev_dash THEN SlugChars(Tail(value), TRUE)
    ELSE <<"-">> \o SlugChars(Tail(value), TRUE)

slugify(value) ==
    LET stripped == StripChar(value, " ")
        lowered == [i \in 1..Len(stripped) |-> Lower(stripped[i])]
    IN  StripChar(SlugChars(lowered, FALSE), "-")

\* folder_name = f"{timestamp}-{slug or session_id}", where slug is
\* slugify(project_name) if project_name else "": the timestamp, the slug,
\* and the session id when the slug is empty (id 0: no id in the name).
folder_name(timestamp, project_name, session_id) ==
    LET slug == IF project_name # <<>> THEN slugify(project_name) ELSE <<>> IN
    [timestamp |-> timestamp, slug |-> slug,
     id |-> IF slug # <<>> THEN 0 ELSE session_id]

outsideFolders == <<_sessions, _allocated, _next, containers, docker, launch,
                    loop, allocVars, termVars, last, ensureVars, lockVars,
                    fileVars, sweepVars, viewVars>>

\* A second passes: datetime.utcnow().strftime("%Y%m%d-%H%M%S") changes.
Tick ==
    /\ clock < MaxClock
    /\ clock' = clock + 1
    /\ UNCHANGED <<workspaces, outsideFolders>>

\* create_session(git_url, project_name) as far as workspace_dir: the session
\* ids (uuid4) are taken to be distinct.
CreateFolder(project_name) ==
    /\ Len(workspaces) < MaxSessions
    /\ LET session_id == Len(workspaces) + 1 IN
       workspaces' = Append(workspaces,
           [id |-> session_id, project_name |-> project_name,
            workspace_dir |-> folder_name(clock, project_name, session_id)])
    /\ UNCHANGED <<clock, outsideFolders>>

\* ------------------------------------------- update_session and as_dict
\* One SessionInfo, the update_session calls of its launch_session thread,
\* statement by statement, and the as_dict call of the status handler, field
\* by field.
InfoCreated == [status |-> PENDING, error_message |-> None, access_url |-> None]
UpdateIdle == [pc |-> "idle", status |-> None, error |-> None, access_url |-> None]
ViewIdle == [pc |-> "idle", status |-> None, error_message |-> None,
             access_url |-> None]

outsideView == <<_sessions, _allocated, _next, containers, docker, launch,
                 loop, allocVars, termVars, last, ensureVars, lockVars,
                 fileVars, sweepVars, folderVars>>

\* launch_session calls update_session: first with LAUNCHING, then with
\* RUNNING and the access url, or with ERROR and the message.
UpdateCall(status, error, access_url) ==
    /\ update.pc = "idle"
    /\ \/ /\ info.status = PENDING
          /\ status = LAUNCHING /\ error = None /\ access_url = None
       \/ /\ info.status = LAUNCHING
          /\ \/ status = RUNNING /\ error = None /\ access_url = "url"
             \/ status = ERROR /\ error = "message" /\ access_url = None
    /\ update' = [pc |-> "status", status |-> status, error |-> error,
                  access_url |-> access_url]
    /\ UNCHANGED <<info, view, outsideView>>

\* if status is not None: session.status = status
UpdateStatus ==
    /\ update.pc = "status"
    /\ info' = [info EXCEPT !.status = IF update.status # None
                                       THEN update.status ELSE @]
    /\ update' = [update EXCEPT !.pc = "error"]
    /\ UNCHANGED <<view, outsideView>>

\* session.updated_at = ...; session.error_message = error
UpdateError ==
    /\ update.pc = "error"
    /\ info' = [info EXCEPT !.error_message = update.error]
    /\ update' = [update EXCEPT !.pc = "url"]
    /\ UNCHANGED <<view, outsideView>>

\* if access_url is not None: session.access_url = access_url
UpdateUrl ==
    /\ update.pc = "url"
    /\ info' = [info EXCEPT !.access_url = IF update.access_url # None
                                           THEN update.access_url ELSE @]
    /\ update' = UpdateIdle
    /\ UNCHANGED <<view, outsideView>>

\* session_status: get_session, then as_dict begins
ViewCall ==
    /\ view.pc \in {"idle", "done"}
    /\ view' = [ViewIdle EXCEPT !.pc = "status"]
    /\ UNCHANGED <<info, update, outsideView>>

\* "status": self.status.value
ViewStatus ==
    /\ view.pc = "status"
    /\ view' = [view EXCEPT !.status = info.status, !.pc = "error_message"]
    /\ UNCHANGED <<info, update, outsideView>>

\* "error_message": self.error_message
ViewError ==
    /\ view.pc = "error_message"
    /\ view' = [view EXCEPT !.error_message = info.error_message,
                            !.pc = "access_url"]
    /\ UNCHANGED <<info, update, outsideView>>

\* "access_url": self.access_url; the dict is returned
ViewUrl ==
    /\ view.pc = "access_url"
    /\ view' = [view EXCEPT !.access_url = info.access_url, !.pc = "done"]
    /\ UNCHANGED <<info, update, outsideView>>

\* -------------------------------------------------------------------- Spec
InitAllocator ==
    /\ _allocated = EmptyDict
    /\ _next = PortStart
    /\ ports_lock = 0
    /\ granted = [p \in Ports |-> {}]
    /\ last = NoCall

InitManager ==
    /\ _sessions = EmptyDict
    /\ containers = EmptyDict
    /\ launch = EmptyDict
    /\ loop = Idle

InitTerminals ==
    /\ _terminals = EmptyDict
    /\ terms = <<>>
    /\ produced = <<>>
    /\ poller = PollerIdle
    /\ writer = WriterIdle
    /\ ensurers = [t \in Callers |-> EnsurerIdle]
    /\ terminals_lock = 0
    /\ lock_holder = [l \in LockNames |-> 0]
    /\ threads = [t \in Callers |-> ThreadIdle]
    /\ file_request = NoFileRequest
    /\ symlink = FALSE
    /\ sweep = NoSweep
    /\ clock = 0
    /\ workspaces = <<>>
    /\ info = InfoCreated
    /\ update = UpdateIdle
    /\ view = ViewIdle

Init ==
    /\ InitAllocator
    /\ InitManager
    /\ InitTerminals
    /\ _backend = None
    /\ docker \in BOOLEAN
    /\ callers = [t \in Callers |-> CallerIdle]

Next ==
    \/ CreateAcquire
    \/ CreateRecord
    \/ Respond
    \/ \E session_id \in Ids : StopBegin(session_id)
    \/ StopContainer
    \/ StopRelease
    \/ StopUpdate
    \/ \E session_id \in Ids : LaunchBegin(session_id)
    \/ \E session_id \in Ids : LaunchPrepareWorkspace(session_id)
    \/ \E session_id \in Ids : LaunchApplyTemplate(session_id)
    \/ \E session_id \in Ids : LaunchStartStopContainer(session_id)
    \/ \E session_id \in Ids : LaunchStartRun(session_id)
    \/ \E session_id \in Ids : LaunchSetRunning(session_id)
    \/ \E session_id \in Ids : RollbackRelease(session_id)
    \/ \E session_id \in Ids : RollbackStopContainer(session_id)
    \/ \E session_id \in Ids : RollbackUpdate(session_id)

Spec == Init /\ [][Next]_vars

\* A step of the launch_session thread of one session.
LaunchStep(session_id) ==
    \/ LaunchBegin(session_id)
    \/ LaunchPrepareWorkspace(session_id)
    \/ LaunchApplyTemplate(session_id)
    \/ LaunchStartStopContainer(session_id)
    \/ LaunchStartRun(session_id)
    \/ LaunchSetRunning(session_id)
    \/ RollbackRelease(session_id)
    \/ RollbackStopContainer(session_id)
    \/ RollbackUpdate(session_id)

\* The portal under fair scheduling: a queued background task is taken by a
\* worker thread, and a thread that can take a step takes it.
SpecLive == Init /\ [][Next]_vars /\ \A session_id \in Ids : WF_vars(LaunchStep(session_id))

\* The portal with launch_session also called again for sessions whose launch
\* has ended.
NextRelaunch ==
    \/ Next
    \/ \E session_id \in Ids : LaunchAgain(session_id)

SpecRelaunch == Init /\ [][NextRelaunch]_vars

\* The allocator alone, called by concurrent threads.
InitPorts ==
    /\ InitAllocator
    /\ InitManager
    /\ InitTerminals
    /\ _backend = None
    /\ docker = TRUE
    /\ callers = [t \in Callers |-> CallerIdle]

NextPorts ==
    \/ \E t \in Callers : AcquireEnter(t)
    \/ \E t \in Callers : AcquireFor(t)
    \/ \E t \in Callers : AcquireBump(t)
    \/ \E t \in Callers : AcquireWrap(t)
    \/ \E t \in Callers : AcquireCheck(t)
    \/ \E t \in Callers : AcquireProbe(t)
    \/ \E t \in Callers : AcquireInsert(t)
    \/ \E t \in Callers, port \in Ports : ReleaseEnter(t, port)
    \/ \E t \in Callers : ReleasePop(t)

SpecPorts == InitPorts /\ [][NextPorts]_vars

\* The allocator alone, called by one thread.
NextAlloc ==
    \/ \E owner \in Ids, busy \in SUBSET Ports : AllocAcquire(owner, busy)
    \/ \E port \in Ports : AllocRelease(port)

SpecAlloc == InitPorts /\ [][NextAlloc]_vars

\* The terminal bridge: one session's terminals, their processes and reader
\* threads, and a polling client.
InitTerm ==
    /\ InitAllocator
    /\ InitManager
    /\ InitTerminals
    /\ _backend \in {"container", None}
    /\ docker = TRUE
    /\ callers = [t \in Callers |-> CallerIdle]

NextTerm ==
    \/ PollEnsure
    \/ PollRead
    \/ PollFailed
    \/ \E g \in TermIdx : ProcWrite(g)
    \/ \E g \in TermIdx : ProcExit(g)
    \/ \E g \in TermIdx : ReaderPoll(g)
    \/ \E g \in TermIdx : ReaderSelectNow(g)
    \/ \E g \in TermIdx : ReaderSelect(g)
    \/ \E g \in TermIdx : ReaderRead(g)
    \/ \E g \in TermIdx : ReaderExtend(g)
    \/ \E g \in TermIdx : ReaderExitCheck(g)
    \/ \E g \in TermIdx : ReaderFinally(g)
    \/ \E g \in TermIdx : ReaderClose(g)

SpecTerm == InitTerm /\ [][NextTerm]_vars

\* A step of the reader thread of one terminal.
ReaderStep(g) ==
    \/ ReaderPoll(g)
    \/ ReaderSelectNow(g)
    \/ ReaderSelect(g)
    \/ ReaderRead(g)
    \/ ReaderExtend(g)
    \/ ReaderExitCheck(g)
    \/ ReaderFinally(g)
    \/ ReaderClose(g)

\* The terminals under fair scheduling of the reader threads.
SpecTermLive == InitTerm /\ [][NextTerm]_vars /\ \A g \in TermIdx : WF_vars(ReaderStep(g))

\* The terminal manager called by concurrent threads, with the processes and
\* reader threads of the terminals they construct.
NextEnsure ==
    \/ \E t \in Callers : EnsureCall(t)
    \/ \E t \in Callers : EnsureLock(t)
    \/ \E t \in Callers : EnsureGet(t)
    \/ \E t \in Callers : EnsureConstruct(t)
    \/ \E t \in Callers : EnsureConstructHost(t)
    \/ \E t \in Callers : EnsureRegister(t)
    \/ \E t \in Callers : EnsureReturn(t)
    \/ \E g \in TermIdx : ProcWrite(g)
    \/ \E g \in TermIdx : ProcExit(g)
    \/ \E g \in TermIdx : ReaderPoll(g)
    \/ \E g \in TermIdx : ReaderSelectNow(g)
    \/ \E g \in TermIdx : ReaderSelect(g)
    \/ \E g \in TermIdx : ReaderRead(g)
    \/ \E g \in TermIdx : ReaderExtend(g)
    \/ \E g \in TermIdx : ReaderExitCheck(g)
    \/ \E g \in TermIdx : ReaderFinally(g)
    \/ \E g \in TermIdx : ReaderClose(g)

SpecEnsure == InitTerm /\ [][NextEnsure]_vars

\* The terminal bridge with the client that sends input as well, on a host
\* without a container backend.
InitInput ==
    /\ InitAllocator
    /\ InitManager
    /\ InitTerminals
    /\ _backend = None
    /\ docker = TRUE
    /\ callers = [t \in Callers |-> CallerIdle]

NextInput ==
    \/ NextTerm
    \/ WriteEnsure
    \/ WriteCheck
    \/ WriteOs

SpecInput == InitInput /\ [][NextInput]_vars

\* The locks alone: every thread runs the lock-taking methods one after the
\* other (a handler is a sequence of such calls), in any interleaving.
NextLocks ==
    \E t \in Callers :
        \/ \E method \in Methods : ThreadCall(t, method)
        \/ ThreadAcquire(t)
        \/ ThreadRelease(t)
        \/ ThreadReturn(t)

SpecLocks == InitTerm /\ [][NextLocks]_vars

\* The portal with its shutdown sweep.
NextSweep ==
    \/ Next
    \/ SweepBegin
    \/ \E session_id \in Ids : SweepStopContainer(session_id)
    \/ \E session_id \in Ids : SweepRelease(session_id)
    \/ \E session_id \in Ids : SweepUpdate(session_id)
    \/ SweepEnd

SpecSweep == Init /\ [][NextSweep]_vars

\* create_session's folder names alone.
NextFolders ==
    \/ Tick
    \/ \E project_name \in ProjectNames : CreateFolder(project_name)

SpecFolders == Init /\ [][NextFolders]_vars

\* One session record, updated by its launch thread and read by the status
\* handler.
NextView ==
    \/ \E status \in {LAUNCHING, RUNNING, ERROR}, error \in {None, "message"},
          access_url \in {None, "url"} : UpdateCall(status, error, access_url)
    \/ UpdateStatus
    \/ UpdateError
    \/ UpdateUrl
    \/ ViewCall
    \/ ViewStatus
    \/ ViewError
    \/ ViewUrl

SpecView == Init /\ [][NextView]_vars

\* The file handlers alone: one request at a time on a workspace whose
\* content changes between requests.
NextPath ==
    \/ file_request = NoFileRequest /\ \E wire \in Wire : _handle_api_tree(wire)
    \/ file_request = NoFileRequest /\ \E wire \in Wire : _handle_api_read_file(wire)
    \/ file_request = NoFileRequest /\ \E wire \in Wire : _handle_api_write_file(wire)
    \/ FileRespond
    \/ LinkChange

SpecPath == InitTerm /\ [][NextPath]_vars

\* ------------------------------------------------------------------ claims
Known == DOMAIN _sessions
Status(s) == IF s \in Known THEN _sessions[s].status ELSE "absent"
Active(s) == Status(s) \in {PENDING, LAUNCHING, RUNNING}
Leased(s) == {p \in DOMAIN _allocated : _allocated[p] = s}
LaunchEnded(s) == s \in DOMAIN launch /\ launch[s].pc \in {"returned", "raised"}
\* The step on which the launch_session call of s ends.
LaunchEnds(s) == s \in DOMAIN launch /\ ~LaunchEnded(s) /\ LaunchEnded(s)'
\* The step is one of the handler on the event loop.
LoopStep == loop' # loop

\* C1: a session whose status is Running has its port in the lease table with
\* its own id as owner.
C1_RunningHoldsLease ==
    \A s \in Known :
        Status(s) = RUNNING =>
            /\ _sessions[s].port \in DOMAIN _allocated
            /\ _allocated[_sessions[s].port] = s

\* C2: when a step of launch_session has failed, the call ends with the
\* session's port absent from the lease table, the container removed after the
\* failure, and the session in status Error with the failure's message.
C2_FailedLaunchRollsBack ==
    [][\A s \in Ids :
          (LaunchEnds(s) /\ launch[s].exc # None) =>
              /\ _sessions'[s].port \notin DOMAIN _allocated'
              /\ launch'[s].removed
              /\ _sessions'[s].status = ERROR
              /\ _sessions'[s].error_message = launch'[s].exc]_vars

\* C3: no two active sessions (Pending, Launching or Running) hold the same port.
C3_ActivePortsDistinct ==
    \A a, b \in Known :
        (a # b /\ Active(a) /\ Active(b)) => _sessions[a].port # _sessions[b].port

\* The step on which acquire, called by t, records its candidate and returns it.
AcquireReturns(t) == At_(t, "insert") /\ callers'[t].pc = "idle"

\* C4: acquire never returns a port that is in the lease table when it is
\* chosen, no port is held by two callers that acquired it (none is returned
\* twice without a release in between, no lease is overwritten), and a port
\* is inserted only after its probe answered false in the same critical section.
C4_AcquireExclusive ==
    /\ [](\A p \in Ports : Cardinality(granted[p]) <= 1)
    /\ [][\A t \in Callers :
            AcquireReturns(t) =>
                /\ callers[t].candidate \notin DOMAIN _allocated
                /\ callers[t].probed
                /\ ports_lock = t
                /\ \A p \in DOMAIN _allocated :
                      p \in DOMAIN _allocated' /\ _allocated'[p] = _allocated[p]
                /\ _allocated'[callers[t].candidate] = t]_vars

\* C4 witness: a caller is about to be handed a port while another caller
\* holds a lease on a different port.
C4_Witness ==
    \E t, u \in Callers :
        /\ t # u
        /\ At_(u, "insert")
        /\ \E p \in DOMAIN _allocated :
              _allocated[p] = t /\ callers[u].candidate # p

\* C5: once a session has moved to Error the lease table holds no port owned by
\* it; and a launch that failed at the clone step ends with the session in
\* Error, its port free and a non-empty error_message.
C5_ErrorHoldsNoLease ==
    /\ [](\A s \in Known :
            (LaunchEnded(s) /\ launch[s].exc # None /\ launch[s].pc = "returned")
                => Leased(s) = {})
    /\ [][\A s \in Ids :
            (LaunchEnds(s) /\ launch[s].exc = "git clone failed") =>
                /\ _sessions'[s].status = ERROR
                /\ _sessions'[s].port \notin DOMAIN _allocated'
                /\ _sessions'[s].error_message \notin {None, ""}]_vars

Edges ==
    {<<PENDING, LAUNCHING>>, <<LAUNCHING, RUNNING>>, <<LAUNCHING, ERROR>>,
     <<RUNNING, STOPPED>>, <<ERROR, STOPPED>>}

\* C7: Stopped is terminal (no later step changes the status of a Stopped
\* session) and every status change follows one of the edges Pending->Launching,
\* Launching->Running, Launching->Error, Running->Stopped, Error->Stopped.
C7_StoppedTerminalEdges ==
    [][\A s \in Known :
          /\ Status(s) = STOPPED => Status(s)' = STOPPED
          /\ Status(s)' # Status(s) => <<Status(s), Status(s)'>> \in Edges]_vars

\* C8: stop_session on an already-Stopped session or on an unknown id raises
\* nothing and leaves the registry, every session and the lease table unchanged.
C8_StopNoOp ==
    [][(/\ loop.op = "stop"
        /\ loop.was_stopped \/ loop.sid \notin Known
        /\ LoopStep) =>
            /\ loop'.pc # "raised"
            /\ _sessions' = _sessions
            /\ _allocated' = _allocated]_vars

IsPrefix(a, b) == Len(a) <= Len(b) /\ a = SubSeq(b, 1, Len(a))

\* C9: when a terminal is marked closed after its process has exited, every byte
\* the process wrote to the pseudo-terminal has been appended to the buffer:
\* none is still queued in the pseudo-terminal or held by the reader.
C9_DrainedBeforeClosed ==
    \A g \in Terms :
        (terms[g]._closed /\ ~terms[g].alive) =>
            terms[g].pty = <<>> /\ terms[g].chunk = <<>>

\* C10: what the polling client has received is, at every moment, a prefix of
\* what the session's terminals produced (no byte skipped, repeated or out of
\* order), also across the close of a terminal and its re-creation.
C10_ExactlyOnceInOrder == IsPrefix(poller.received, produced)

\* C11: launch_session never propagates an exception to its caller: no launch
\* ends by raising, whichever step failed and whatever the cleanup met.
C11_LaunchNeverRaises ==
    \A s \in DOMAIN launch : launch[s].pc # "raised"

\* The step on which a stop_session call on a known session that was not yet
\* Stopped ends (by returning or by raising).
StopEnds ==
    /\ loop.op = "stop" /\ loop.sid \in Known /\ ~loop.was_stopped
    /\ loop.pc \notin {"done", "raised"}
    /\ loop'.pc \in {"done", "raised"}

\* C12: stop_session on a known session that is not yet Stopped returns with
\* the session's port absent from the lease table and its status Stopped.
C12_StopReleasesAndStops ==
    [][StopEnds =>
          /\ loop'.pc = "done"
          /\ _sessions'[loop.sid].port \notin DOMAIN _allocated'
          /\ _sessions'[loop.sid].status = STOPPED]_vars

\* C13: create_session fails only when no port of the range is free (every
\* port is leased or in use); when it fails, the registry and the lease table
\* are as before; when it returns, the registry holds the new session, Pending,
\* and the lease table maps the session's port to the new session's id.
C13_CreateRecordsOrFails ==
    /\ [](\A busy \in SUBSET Ports :
             ~Acquire(_next, _allocated, busy, 0).ok =>
                 Ports \subseteq (DOMAIN _allocated) \cup busy)
    /\ [][(loop = Idle /\ loop'.op = "create" /\ loop'.pc = "raised") =>
             (_sessions' = _sessions /\ _allocated' = _allocated)]_vars
    /\ [][(loop.op = "create" /\ loop.pc = "record" /\ loop'.pc = "done") =>
             /\ loop.sid \notin DOMAIN _sessions
             /\ loop.sid \in DOMAIN _sessions'
             /\ _sessions'[loop.sid].status = PENDING
             /\ _sessions'[loop.sid].port \in DOMAIN _allocated'
             /\ _allocated'[_sessions'[loop.sid].port] = loop.sid]_vars

\* C14: on a host where the docker executable cannot be run, the launch of a
\* created session whose workspace and template steps succeed (an empty source
\* url: nothing is cloned) ends by returning with the session Running.
C14_RunningWithoutDocker ==
    [][\A s \in Ids :
          (/\ LaunchEnds(s)
           /\ ~docker
           /\ launch'[s].exc \notin {"git clone failed", "template failed"}) =>
              (launch'[s].pc = "returned" /\ Status(s)' = RUNNING)]_vars

\* C15: release is idempotent: releasing a port that is not leased (never
\* leased, already released, or outside the range) leaves the lease table and
\* the cursor as they are, and releasing a port twice gives what releasing it
\* once gives.
C15_ReleaseIdempotent ==
    /\ [](\A p \in (PortStart - 1) .. PortEnd :
             /\ Release(Release(_allocated, p), p) = Release(_allocated, p)
             /\ p \notin DOMAIN _allocated => Release(_allocated, p) = _allocated)
    /\ [][\A t \in Callers :
             (callers[t].pc = "pop" /\ callers'[t].pc = "idle") =>
                 /\ _next' = _next
                 /\ callers[t].candidate \notin DOMAIN _allocated'
                 /\ callers[t].candidate \notin DOMAIN _allocated =>
                        _allocated' = _allocated]_vars

\* C15 witness: a release of a port that is not leased is about to pop, while
\* other ports are leased.
C15_Witness ==
    \E t \in Callers :
        /\ callers[t].pc = "pop"
        /\ callers[t].candidate \notin DOMAIN _allocated
        /\ _allocated # EmptyDict

\* The distance of port p from the cursor nxt in cyclic order.
Off(p, nxt) == (p - nxt + (PortEnd - PortStart)) % (PortEnd - PortStart)

\* The step is a call of acquire that returns a port.
AcquireReturned == last'.op = "acquire" /\ last'.ok
\* The step is a call of acquire that raises.
AcquireRaised == last'.op = "acquire" /\ ~last'.ok

\* C16: a port returned by acquire lies in [start, end), was not leased and was
\* not probed as in use, every port before it in cyclic order from the cursor
\* was leased or in use, and the lease table then maps it to the given owner.
C16_AcquireFirstFree ==
    /\ [](\A busy \in SUBSET Ports, owner \in Ids :
             LET r == Acquire(_next, _allocated, busy, owner) IN
             r.ok =>
                 /\ r.port \in Ports
                 /\ r.port \notin DOMAIN _allocated
                 /\ r.port \notin busy
                 /\ \A q \in Ports :
                        Off(q, _next) < Off(r.port, _next) =>
                            q \in (DOMAIN _allocated) \cup busy
                 /\ r.allocated = Put(_allocated, r.port, owner))
    /\ [][AcquireReturned =>
             /\ last'.port \in Ports \ DOMAIN _allocated
             /\ last'.port \notin last'.busy
             /\ \A q \in Ports :
                    Off(q, _next) < Off(last'.port, _next) =>
                        q \in (DOMAIN _allocated) \cup last'.busy
             /\ _allocated' = Put(_allocated, last'.port, last'.owner)]_vars

\* C16 witness: acquire has returned a port other than the one under the
\* cursor, having skipped a leased port.
C16_Witness ==
    /\ last.op = "acquire" /\ last.ok
    /\ last.port # last.cursor
    /\ last.cursor \in DOMAIN _allocated
    /\ last.busy = {}

\* C17: acquire fails exactly when every port of the range is leased or probed
\* as in use; the cycle that fails examines each port of the range once; a
\* failed acquire leaves the lease table and the cursor as they were.
C17_AcquireFailsWhenFull ==
    /\ [](\A busy \in SUBSET Ports, owner \in Ids :
             LET r == Acquire(_next, _allocated, busy, owner) IN
             /\ ~r.ok <=> Ports \subseteq (DOMAIN _allocated) \cup busy
             /\ ~r.ok => (r.allocated = _allocated /\ r.next = _next))
    /\ [](LET c == Candidates(PortEnd - PortStart, _next) IN
             /\ Len(c) = Cardinality(Ports)
             /\ {c[i] : i \in 1 .. Len(c)} = Ports)
    /\ [][AcquireRaised =>
             /\ Ports \subseteq (DOMAIN _allocated) \cup last'.busy
             /\ _allocated' = _allocated
             /\ _next' = _next]_vars

\* C17 witness: an acquire has failed with one port leased, another probed as
\* in use, and the cursor away from the start of the range.
C17_Witness ==
    /\ last.op = "acquire" /\ ~last.ok
    /\ _allocated # EmptyDict
    /\ last.busy # Ports
    /\ _next # PortStart

\* An offset brought into [0, n].
Clamp(offset, n) == IF offset < 0 THEN 0 ELSE IF offset > n THEN n ELSE offset
\* The offsets a request may carry: below zero, within the buffer, beyond it.
Offsets == (0 - 1) .. (MaxOutput + 1)
\* The poll handler's read returns on this step.
ReadReturns == poller.pc = "read" /\ poller'.pc = "idle"

\* C18: read accepts every offset, treating a negative one as 0 and one beyond
\* the buffer as the buffer's length; it returns the buffer's length, the
\* bytes of the buffer from the clamped offset to the end, and the closed
\* flag, all as they are at the moment of the call.
C18_ReadClamps ==
    /\ [](\A g \in Terms : \A offset \in Offsets :
             LET t == terms[g]
                 r == read(t, offset)
                 c == Clamp(offset, Len(t._buffer))
             IN  /\ r.new_offset = Len(t._buffer)
                 /\ Len(r.data) = Len(t._buffer) - c
                 /\ \A i \in 1 .. Len(r.data) : r.data[i] = t._buffer[c + i]
                 /\ r.closed = t._closed)
    /\ [][ReadReturns =>
             LET t == terms[poller.terminal]
                 c == Clamp(poller.offset, Len(t._buffer))
             IN  /\ poller'.offset = Len(t._buffer)
                 /\ poller'.received =
                        poller.received \o SubSeq(t._buffer, c + 1, Len(t._buffer))
                 /\ poller'.closed = t._closed]_vars

\* C18 witness: the poll handler is about to read at an offset beyond the end
\* of the terminal's buffer.
C18_Witness ==
    /\ poller.pc = "read"
    /\ poller.offset > Len(terms[poller.terminal]._buffer)

\* C19 as stated: across any step that is not part of a write call, read(N)
\* returns the same output and the same closed flag before and after.
C19_SameWithoutWrite ==
    [][writer' = writer =>
          \A g \in Terms : \A N \in Offsets :
              /\ read(terms'[g], N).data = read(terms[g], N).data
              /\ read(terms'[g], N).closed = read(terms[g], N).closed]_vars

\* C19 amended: across any step that is not a step of the terminal's reader
\* thread (which appends the process's output and marks the session closed),
\* read(N) returns the same result before and after: neither a read, nor a
\* write call, nor the process, nor ensure changes what read returns.
C19_SameWithoutReaderStep ==
    [][\A g \in Terms :
          terms'[g].pc = terms[g].pc =>
              \A N \in Offsets : read(terms'[g], N) = read(terms[g], N)]_vars

\* C19 witness: output has been delivered to the polling client and a write
\* call has put input on the same terminal, which is still open.
C19_Witness ==
    \E g \in Terms :
        /\ terms[g]._buffer # <<>>
        /\ poller.received # <<>>
        /\ terms[g].stdin # <<>>
        /\ ~terms[g]._closed

\* C20: the buffer is append-only: across every step each terminal's buffer
\* is a prefix of what it is afterwards; and for offsets N1 < N2 within the
\* buffer, read(N1) returns the bytes in [N1, N2) followed by what read(N2)
\* returns.
C20_AppendOnly ==
    /\ [][\A g \in Terms : IsPrefix(terms[g]._buffer, terms'[g]._buffer)]_vars
    /\ [](\A g \in Terms :
             \A N1, N2 \in 0 .. Len(terms[g]._buffer) :
                 N1 < N2 =>
                     read(terms[g], N1).data =
                         SubSeq(terms[g]._buffer, N1 + 1, N2)
                             \o read(terms[g], N2).data)

\* C20 witness: the reader is about to append a chunk to a buffer that already
\* holds output.
C20_Witness ==
    \E g \in Terms :
        /\ terms[g].pc = "extend"
        /\ terms[g]._buffer # <<>>
        /\ terms[g].chunk # <<>>

\* C21: a caller that reads one terminal repeatedly, each time passing the
\* offset its previous read returned, has received exactly the bytes of the
\* buffer from its first offset up to its last returned offset, in order: on
\* the first terminal the polling client, which starts at offset 0, holds the
\* buffer's first bytes; and for every terminal and offset, a read before a
\* step and a read after it at the returned offset together give the later
\* buffer from the first offset on.
C21_ChainedReads ==
    /\ [](Len(terms) = 1 =>
             /\ poller.offset <= Len(terms[1]._buffer)
             /\ poller.received = SubSeq(terms[1]._buffer, 1, poller.offset))
    /\ [][\A g \in Terms : \A N \in 0 .. MaxOutput :
             LET r1 == read(terms[g], N)
                 r2 == read(terms'[g], r1.new_offset)
                 c == Clamp(N, Len(terms[g]._buffer))
             IN  r1.data \o r2.data =
                     SubSeq(terms'[g]._buffer, c + 1, r2.new_offset)]_vars

\* C21 witness: the client is about to make its second read of the first
\* terminal, at the offset its first read returned, and the buffer has grown
\* since.
C21_Witness ==
    /\ Len(terms) = 1
    /\ poller.pc = "read"
    /\ poller.offset = 1
    /\ Len(terms[1]._buffer) = 2

\* C22: the closed flag of a terminal starts false, and once it is true no
\* step of any handler or thread makes it false again.
C22_ClosedOneWay ==
    [][/\ \A g \in Terms : terms[g]._closed => terms'[g]._closed
       /\ \A g \in (1 .. Len(terms')) \ Terms : ~terms'[g]._closed]_vars

\* C22 witness: a terminal has closed, its reader has ended, and ensure has
\* since registered another terminal for the session.
C22_Witness ==
    \E g \in Terms :
        /\ terms[g]._closed
        /\ terms[g].pc = "done"
        /\ _terminals[TermSid] # g

\* C23: once a terminal is closed (a read can return closed=true) its buffer
\* never changes: a later read returns the same offset and no new byte.
C23_NoGrowthAfterClosed ==
    [][\A g \in Terms :
          terms[g]._closed =>
              /\ terms'[g]._buffer = terms[g]._buffer
              /\ \A N \in Offsets :
                    read(terms'[g], N) = read(terms[g], N)]_vars

\* C23 witness: the client's read has returned closed=true with output in the
\* buffer, and the terminal's reader thread has since run to its end.
C23_Witness ==
    /\ poller.pc = "idle"
    /\ poller.closed
    /\ poller.terminal # 0
    /\ terms[poller.terminal]._buffer # <<>>
    /\ terms[poller.terminal].pc = "done"

\* The write call of the input handler fails at its closed check on this step.
WriteRefused == writer.pc = "check" /\ writer'.pc = "idle"
\* The write call of the input handler ends at its os.write on this step.
WriteWritten == writer.pc = "os_write" /\ writer'.pc = "idle"

\* C24: a write on a closed session fails at the closed check and forwards no
\* byte; a write on a session that is not closed either puts its bytes on the
\* input of that session's process or fails, forwarding nothing: it never
\* returns without the bytes having reached the session's own process.
C24_WriteForwardsOrFails ==
    [][/\ (writer.pc = "check" /\ writer' # writer) =>
             (WriteRefused <=> terms[writer.terminal]._closed)
       /\ WriteRefused => terms' = terms
       /\ WriteWritten =>
             \/ terms' = terms
             \/ terms' = [terms EXCEPT
                   ![writer.terminal].stdin = Append(@, writer.terminal)]]_vars

\* The terminal registered for the polled session, 0 if none.
Registered == IF TermSid \in DOMAIN _terminals THEN _terminals[TermSid] ELSE 0
\* The ensure call of the poll handler runs on this step.
PollEnsures == poller.pc = "idle" /\ poller'.pc \in {"read", "raised"}

\* C25: ensure returns the registered terminal when there is one and it is not
\* closed, constructing nothing; when none is registered or the registered
\* one is closed, a call that returns has constructed one new terminal, not
\* closed, registered it under the id and returned it, leaving the terminals
\* that existed as they were; a call that raises has registered nothing.
C25_EnsureReturnsOrConstructs ==
    [][PollEnsures =>
          IF Registered # 0 /\ ~terms[Registered]._closed
          THEN /\ poller'.pc = "read"
               /\ poller'.terminal = Registered
               /\ terms' = terms
               /\ _terminals' = _terminals
          ELSE IF poller'.pc = "read"
          THEN /\ Len(terms') = Len(terms) + 1
               /\ SubSeq(terms', 1, Len(terms)) = terms
               /\ poller'.terminal = Len(terms')
               /\ ~terms'[Len(terms')]._closed
               /\ _terminals' = Put(_terminals, TermSid, Len(terms'))
          ELSE /\ terms' = terms
               /\ _terminals' = _terminals]_vars

\* C25 witness: ensure has replaced a closed terminal by a new one for a
\* client that had polled the old one.
C25_Witness ==
    /\ poller.pc = "read"
    /\ poller.terminal = 2
    /\ terms[1]._closed
    /\ poller.offset > 0

\* C27: the backend selection only ever changes from a container backend to
\* none, so it changes at most once and is never a container backend again;
\* and every terminal is constructed with the backend that is selected when
\* the ensure call that constructs it ends: with the host shell, after a
\* container-backed construction has failed.
C27_BackendOneWay ==
    /\ [][_backend' # _backend => (_backend # None /\ _backend' = None)]_vars
    /\ [][\A g \in (1 .. Len(terms')) \ Terms :
             terms'[g].backend = _backend']_vars

\* C27 witness: a terminal was constructed with the container backend, a later
\* container-backed construction failed, and the terminal constructed since
\* runs the host shell.
C27_Witness ==
    /\ _backend = None
    /\ \E g, h \in Terms :
          /\ g < h
          /\ terms[g].backend # None
          /\ terms[h].backend = None

\* Calls t and u were both made while no terminal was registered, overlapped,
\* and have both returned.
ConcurrentReturned(t, u) ==
    /\ t # u
    /\ ensurers[t].pc = "returned" /\ ensurers[u].pc = "returned"
    /\ ensurers[t].fresh /\ ensurers[u].fresh
    /\ ensurers[t].overlapped /\ ensurers[u].overlapped

\* No thread other than t and u has called ensure.
OnlyCalls(t, u) ==
    \A w \in Callers \ {t, u} : ensurers[w].pc = "idle"

\* C26 as stated: two concurrent ensure calls for the same new session id
\* return the same terminal, and one process has been spawned.
C26_ConcurrentEnsureShare ==
    \A t, u \in Callers :
        ConcurrentReturned(t, u) =>
            /\ ensurers[t].terminal = ensurers[u].terminal
            /\ Len(terms) = 1

\* C26 amended: at no time are two terminals of the session not closed; and
\* two concurrent ensure calls for the same new session id return the same
\* terminal, with one process spawned, unless the terminal the earlier call
\* constructed has closed before the later call looked it up, in which case
\* the later call has constructed its replacement.
C26_ConcurrentEnsureSerialised ==
    /\ Cardinality({g \in Terms : ~terms[g]._closed}) <= 1
    /\ \A t, u \in Callers :
          ConcurrentReturned(t, u) =>
              \/ ensurers[t].terminal = ensurers[u].terminal
              \/ /\ ensurers[t].terminal < ensurers[u].terminal
                 /\ terms[ensurers[t].terminal]._closed
              \/ /\ ensurers[u].terminal < ensurers[t].terminal
                 /\ terms[ensurers[u].terminal]._closed
    /\ \A t, u \in Callers :
          (ConcurrentReturned(t, u) /\ OnlyCalls(t, u)) =>
              \/ /\ ensurers[t].terminal = ensurers[u].terminal
                 /\ Len(terms) = 1
              \/ /\ ensurers[t].terminal # ensurers[u].terminal
                 /\ Len(terms) = 2
                 /\ terms[1]._closed

\* C26 witness: two overlapping calls for a new id have both returned the one
\* terminal that was constructed, which is still open.
C26_Witness ==
    \E t, u \in Callers :
        /\ ConcurrentReturned(t, u)
        /\ ensurers[t].terminal = ensurers[u].terminal
        /\ Len(terms) = 1
        /\ ~terms[1]._closed

\* C28: every session id owns at most one port of the lease table, and no
\* step starts a container under a name that a running container bears (the
\* running containers are keyed by name), so that at most one running
\* container bears a session's container name; also when launch_session is
\* called again for a session.
C28_OnePortOneContainer ==
    /\ [](\A s \in Ids : Cardinality(Leased(s)) <= 1)
    /\ [][\A n \in (DOMAIN containers) \cap (DOMAIN containers') :
             containers'[n] = containers[n]]_vars

\* C28 witness: a session that was Running is launched again and is about to
\* start its container, while it holds its port.
C28_Witness ==
    \E s \in Known :
        /\ launch[s].pc = "start_run"
        /\ _sessions[s].access_url # <<>>
        /\ Leased(s) # {}

\* The locks a thread holds, and the threads it cannot proceed without.
Held(t) == {l \in LockNames : lock_holder[l] = t}
WaitsFor(t, u) ==
    /\ AtStep(t)
    /\ StepOf(t).a = "acquire"
    /\ lock_holder[StepOf(t).lock] = u

\* The locks of the port-lease table, the session registries and a terminal's
\* output buffer.
ResourceLocks == {PortsLock, SessionsLock, StoreLock, BufferLock}

\* C29: no thread holds two of the locks of the port-lease table, the session
\* registry and a terminal's output buffer at once, and no set of threads
\* ever waits in a cycle, each on a lock that a thread of the set holds
\* (a thread waiting on a lock it holds itself included).
C29_NoTwoLocksNoCycle ==
    /\ \A t \in Callers : Cardinality(Held(t) \cap ResourceLocks) <= 1
    /\ \A S \in (SUBSET Callers) \ {{}} :
          \E t \in S : \A u \in S : ~WaitsFor(t, u)

\* C29 witness: a thread inside ensure holds the manager's lock and, for
\* terminal.closed, the terminal's lock, while another thread waits for the
\* terminal's lock.
C29_Witness ==
    \E t, u \in Callers :
        /\ Held(t) = {ManagerLock, BufferLock}
        /\ WaitsFor(u, t)
        /\ threads[u].method = "read"

\* The path a handled request asked for, unquoted and resolved, and whether
\* it lies outside the workspace root.
Requested ==
    resolve(join(Base, unquote(strip(file_request.raw_path))), file_request.link)
RequestedOutside == ~IsPrefix(Base, Requested)

\* C30: a request whose path, unquoted and resolved, lies outside the
\* workspace root is answered with the path-escape error and its handler
\* touches nothing in the file system; a request whose path resolves to the
\* root or below is not answered with that error; and whatever a handler
\* touches is the root or below it.
C30_EscapeRefused ==
    file_request # NoFileRequest =>
        /\ RequestedOutside =>
              /\ file_request.response = "escape"
              /\ file_request.accessed = {}
        /\ ~RequestedOutside => file_request.response # "escape"
        /\ \A path \in file_request.accessed : IsPrefix(Base, path)

\* C30 witness: a write request whose path hides ".." in escapes and leads
\* to a sibling of the root whose name begins with the root's name has been
\* refused.
C30_Witness ==
    /\ file_request.handler = "write_file"
    /\ file_request.raw_path = <<"%2e", "%2e", "/", "w", "w">>
    /\ file_request.response = "escape"

\* The step is an acquire that follows a release which removed a lease, and
\* it returns the released port.
ReacquiresReleased ==
    /\ last.op = "release" /\ last.ok
    /\ AcquireReturned
    /\ last'.port = last.port

\* C31: the acquire that follows release(p) returns p only when no other port
\* of the range is free; and the cursor stays within [start, end), an acquire
\* that returns a port leaving it at that port's cyclic successor.
C31_NoImmediateReuse ==
    /\ [][ReacquiresReleased =>
             \A q \in Ports \ {last.port} :
                 q \in (DOMAIN _allocated) \cup last'.busy]_vars
    /\ [](_next \in Ports)
    /\ [][AcquireReturned =>
             _next' = IF last'.port + 1 >= PortEnd THEN PortStart
                      ELSE last'.port + 1]_vars

\* C32: every session that is Launching is eventually Running or Error: no
\* session stays Launching forever, whichever steps of the launch and of its
\* rollback succeed or fail.
C32_LaunchingEnds ==
    \A s \in Ids : (Status(s) = LAUNCHING) ~> (Status(s) \in {RUNNING, ERROR})

\* The position of a launch_session call in the order of its steps.
Rank(pc) ==
    CASE pc = "queued" -> 0
      [] pc = "prepare_workspace" -> 1
      [] pc = "apply_template" -> 2
      [] pc = "start_stop_container" -> 3
      [] pc = "start_run" -> 4
      [] pc = "set_running" -> 5
      [] OTHER -> 6
InRollback(pc) ==
    pc \in {"rollback_release", "rollback_stop_container", "rollback_update"}

\* C33: a launch_session call takes its steps in the order: status Launching,
\* workspace preparation, template application, removal of the container of
\* the session's name, start of the container on the session's port; it comes
\* to set the status Running only by a container start that has succeeded;
\* and once a step has failed it takes none of the later steps.
C33_LaunchInOrder ==
    [][\A s \in DOMAIN launch :
          LET pc == launch[s].pc
              pc2 == launch'[s].pc
              name == _sessions[s].container_name
          IN  /\ (pc2 # pc /\ ~InRollback(pc) /\ Rank(pc) < 6) =>
                    \/ Rank(pc2) = Rank(pc) + 1
                    \/ pc \in {"prepare_workspace", "apply_template",
                               "start_stop_container", "start_run"}
                       /\ pc2 = "rollback_release"
              /\ InRollback(pc) => (InRollback(pc2) \/ pc2 \in {"returned", "raised"})
              /\ (Status(s) # LAUNCHING /\ Status(s)' = LAUNCHING) =>
                    (pc = "queued" /\ pc2 = "prepare_workspace")
              /\ (pc = "start_stop_container" /\ pc2 = "start_run") =>
                    name \notin DOMAIN containers'
              /\ (s \in Known /\ name \notin DOMAIN containers
                    /\ name \in DOMAIN containers') =>
                    (pc = "start_run" /\ pc2 = "set_running")
              /\ (pc # "set_running" /\ pc2 = "set_running") =>
                    /\ name \in DOMAIN containers'
                    /\ containers'[name] = _sessions[s].port
              /\ (Status(s) # RUNNING /\ Status(s)' = RUNNING) =>
                    (pc = "set_running" /\ pc2 = "returned")]_vars

\* C33 witness: one launch has started its container and is about to set
\* Running, another has ended after a failed step.
C33_Witness ==
    \E s, u \in DOMAIN launch :
        /\ launch[s].pc = "set_running"
        /\ _sessions[s].container_name \in DOMAIN containers
        /\ launch[u].pc = "returned"
        /\ Status(u) = ERROR

\* ensure has to construct a terminal for the polled session.
MustConstruct == Registered = 0 \/ terms[Registered]._closed

\* C34: when ensure has to construct a terminal, a container backend is
\* selected and the construction with it fails, the call clears the backend
\* selection and constructs once more with the host shell: if that succeeds
\* the one new terminal, run by the host shell, is registered and returned;
\* if it fails the call raises, the registry and the terminals are as they
\* were, and the selection stays cleared.  No call constructs more than one
\* terminal, and a call that raises leaves no backend selected.
C34_FallbackOnce ==
    /\ [](\A ok_host \in BOOLEAN :
             (MustConstruct /\ _backend # None /\ Len(terms) < MaxTerminals) =>
                 LET r == ensure(TermSid, FALSE, ok_host)
                     fresh == Len(terms) + 1
                 IN  /\ r.backend = None
                     /\ ok_host =>
                           /\ r.terminal = fresh
                           /\ Len(r.terms) = fresh
                           /\ SubSeq(r.terms, 1, Len(terms)) = terms
                           /\ r.terms[fresh].backend = None
                           /\ r.terminals = Put(_terminals, TermSid, fresh)
                     /\ ~ok_host =>
                           /\ r.terminal = 0
                           /\ r.terms = terms
                           /\ r.terminals = _terminals)
    /\ [][PollEnsures =>
             /\ Len(terms') <= Len(terms) + 1
             /\ poller'.pc = "raised" =>
                   /\ _backend' = None
                   /\ terms' = terms
                   /\ _terminals' = _terminals
             /\ (_backend # None /\ _backend' = None /\ poller'.pc = "read") =>
                   /\ Len(terms') = Len(terms) + 1
                   /\ poller'.terminal = Len(terms')
                   /\ terms'[Len(terms')].backend = None
                   /\ _terminals' = Put(_terminals, TermSid, Len(terms'))]_vars

\* C34 witness: the client polls a host-shell terminal that ensure constructed
\* in place of a closed container-backed one, after the container backend
\* failed.
C34_Witness ==
    /\ poller.pc = "read"
    /\ poller.terminal = 2
    /\ terms[1].backend # None
    /\ terms[1]._closed
    /\ terms[2].backend = None
    /\ _backend = None

\* The reader of terminal g has ended, the session is closed and the master
\* handle is released.
ReaderEnded(g) ==
    /\ g \in Terms
    /\ terms[g].pc = "done"
    /\ terms[g]._closed
    /\ ~terms[g].master_open

\* C35: once the process of a terminal has exited (its output is finite), the
\* reader loop eventually ends, with the session closed and the master handle
\* released; the handle is released by one step only, the last of the reader,
\* and is never released again.
C35_ReaderTerminates ==
    /\ \A g \in TermIdx : (g \in Terms /\ ~terms[g].alive) ~> ReaderEnded(g)
    /\ [][\A g \in Terms :
             /\ terms'[g].master_open # terms[g].master_open =>
                   /\ terms[g].master_open
                   /\ terms[g]._closed
                   /\ terms[g].pc = "close" /\ terms'[g].pc = "done"
             /\ terms[g].pc = "done" => terms'[g].pc = "done"]_vars
    /\ [](\A g \in Terms : terms[g].pc = "done" => ReaderEnded(g))

\* C35 witness: a process that wrote output has exited and its reader has
\* ended with the output in the buffer.
C35_Witness ==
    \E g \in Terms :
        /\ ReaderEnded(g)
        /\ ~terms[g].alive
        /\ Len(terms[g]._buffer) = MaxOutput

\* The sweep is over and no launch thread has taken a step since it began,
\* nor is one running.
SweptQuietly ==
    /\ sweep.state = "complete"
    /\ launch = sweep.launch
    /\ \A s \in DOMAIN launch : ~Running(s)

\* C36: when the shutdown sweep has completed with no launch in flight, every
\* known session is Stopped and the lease table is empty.
C36_SweepStopsAll ==
    SweptQuietly =>
        /\ \A s \in Known : Status(s) = STOPPED
        /\ _allocated = EmptyDict

\* C37: two sessions never have the same workspace folder, whatever their
\* project names and the seconds in which they were created.
C37_FoldersDiffer ==
    \A i, j \in 1 .. Len(workspaces) :
        i # j => workspaces[i].workspace_dir # workspaces[j].workspace_dir

\* The step is the port release of stop_session or of the launch rollback for
\* session s.
ReleasesFor(s) ==
    \/ /\ loop.op = "stop" /\ loop.pc = "release" /\ loop.sid = s
       /\ loop'.pc # loop.pc
    \/ /\ At(s, "rollback_release")
       /\ launch'[s].pc # launch[s].pc

\* C38: the port release that stop_session or the launch rollback performs
\* for a session removes no lease that is recorded for another session.
C38_ReleaseOwnLeaseOnly ==
    [][\A s \in Known :
          ReleasesFor(s) =>
              \A p \in DOMAIN _allocated :
                  _allocated[p] # s =>
                      (p \in DOMAIN _allocated' /\ _allocated'[p] = _allocated[p])]_vars

\* C39: write never writes to a master handle that the reader has released,
\* and what it writes never reaches a terminal other than its own.
C39_WriteOnOpenHandle ==
    [][WriteWritten =>
          /\ terms[writer.terminal].master_open
          /\ \A g \in Terms \ {writer.terminal} :
                terms'[g].stdin = terms[g].stdin]_vars

\* C40: the dict that as_dict returns never shows the status Running without
\* the access url, nor the status Error without the error message.
C40_NoTornRecord ==
    view.pc = "done" =>
        /\ view.status = RUNNING => view.access_url # None
        /\ view.status = ERROR => view.error_message # None
====
